---- MODULE Spec2Model ----
(***************************************************************************)
(* A model of the website-generation pipeline: the HTTP front door         *)
(* (server.ts), the orchestrator and job store (website-generator), the    *)
(* architecture planner, the dataset filter, the intent analyzer, the      *)
(* validator and the deployer.                                             *)
(*                                                                         *)
(* Texts are modelled at the level the code inspects them:                 *)
(*   - an intent is a sequence of words; keyword tests are made per word   *)
(*     through the tables WholeWordsOf (regex \b...\b) and SubstringsOf    *)
(*     (String.includes), after Lower (toLowerCase);                       *)
(*   - a data value is a sequence of letters, so that toLowerCase and      *)
(*     includes are computed, not assumed;                                 *)
(*   - a CLI output is a sequence of tokens (plain text, URLs).            *)
(***************************************************************************)
EXTENDS Integers, Sequences, FiniteSets, TLC

(***************************************************************************)
(* Bounds of the model.                                                    *)
(***************************************************************************)
MaxReq == 2
MaxTime == 3
MaxPlanFiles == 3
MaxData == 2
MaxOutput == 2
MaxIssues == 2
MaxIntentWords == 2

(***************************************************************************)
(* Generic helpers.                                                        *)
(***************************************************************************)
Undefined == "undefined"

Range(s) == {s[i] : i \in 1..Len(s)}

SeqsUpTo(S, n) == UNION {[1..k -> S] : k \in 0..n}

Min(a, b) == IF a <= b THEN a ELSE b

Max(a, b) == IF a >= b THEN a ELSE b

\* Array.prototype.slice(0, n) for an integer n (a negative n counts from the end)
Slice(s, n) == SubSeq(s, 1, IF n >= 0 THEN Min(n, Len(s)) ELSE Max(Len(s) + n, 0))

(***************************************************************************)
(* Intent texts.                                                           *)
(***************************************************************************)
\* String.prototype.toLowerCase, per word
Lower(w) ==
  CASE w = "Company" -> "company"
    [] w = "Products" -> "products"
    [] w = "CORRECT" -> "correct"
    [] OTHER -> w

ToLowerCase(text) == [i \in 1..Len(text) |-> Lower(text[i])]

\* the keywords k of the code for which String.includes(k) is true of the word w
SubstringsOf(w) ==
  CASE w = "products" -> {"products", "product"}
    [] w = "services" -> {"services", "service"}
    [] w = "details" -> {"details", "detail"}
    [] w = "movies" -> {"movies", "movie"}
    [] w = "small" -> {"small", "all"}
    [] w = "incorrect" -> {"incorrect", "correct"}
    [] OTHER -> {w}

\* the keywords k for which the regex \bk\b matches inside the word w
WholeWordsOf(w) == {w}

\* the keywords the word w ends with, and those it starts with
SuffixesOf(w) ==
  CASE w = "cabin" -> {"", "cabin", "in"}
    [] w = "located" -> {"", "located", "at"}
    [] OTHER -> {"", w}

PrefixesOf(w) ==
  CASE w = "products" -> {"", "products", "product"}
    [] w = "services" -> {"", "services", "service"}
    [] w = "websites" -> {"", "websites", "website"}
    [] OTHER -> {"", w}

Includes(text, k) == \E i \in 1..Len(text) : k \in SubstringsOf(text[i])

\* String.includes of a phrase of several words: the first word of the phrase
\* ends a word of the text, the last one starts a word, the others are words
\* of the text ("" stands for the blank at an end of the phrase)
IncludesPhrase(text, phrase) ==
  \E i \in 1..(Len(text) - Len(phrase) + 1) :
    /\ phrase[1] \in SuffixesOf(text[i])
    /\ phrase[Len(phrase)] \in PrefixesOf(text[i + Len(phrase) - 1])
    /\ \A j \in 2..(Len(phrase) - 1) : text[i + j - 1] = phrase[j]

\* text.includes(other) for another text of the model
IncludesText(text, other) ==
  CASE Len(other) = 0 -> TRUE
    [] Len(other) = 1 -> Includes(text, other[1])
    [] OTHER -> IncludesPhrase(text, other)

\* text.match(/\b(k1|k2|...)\b/) is not null
MatchesWord(text, kws) == \E i \in 1..Len(text) : WholeWordsOf(text[i]) \cap kws # {}

\* text.match(/\b(k1|k2|...)\b/g)?.length || 0
CountWords(text, kws) ==
  Cardinality({i \in 1..Len(text) : WholeWordsOf(text[i]) \cap kws # {}})

(***************************************************************************)
(* Architecture planner (architecture-planner.ts).                         *)
(***************************************************************************)
HtmlNames == {"index.html", "about.html", "browse.html", "details.html", "contact.html"}
JsNames == {"app.js"}

\* String.prototype.endsWith on the file names of the model
EndsWith(name, suffix) ==
  CASE suffix = ".html" -> name \in HtmlNames
    [] suffix = ".js" -> name \in JsNames
    [] OTHER -> FALSE

PlannedFile(name, kind) == [fileName |-> name, kind |-> kind]

NullEntry == [fileName |-> "null", kind |-> "null"]

SimpleVocabulary ==
  {"portfolio", "company", "business", "multi-page", "website", "about", "contact",
   "products", "services", "mission", "vision", "team", "testimonials"}

ComplexVocabulary == {"portfolio", "company", "business", "multi-page", "website"}

PageVocabulary == {"about", "contact", "products", "services", "mission", "vision"}

isSimpleRequest(intentLower) == ~MatchesWord(intentLower, SimpleVocabulary)

isComplexRequest(intentLower) ==
  \/ MatchesWord(intentLower, ComplexVocabulary)
  \/ CountWords(intentLower, PageVocabulary) >= 2

requestedPages(intentLower) ==
  (IF Includes(intentLower, "about") \/ Includes(intentLower, "mission")
        \/ Includes(intentLower, "vision")
     THEN <<"about.html">> ELSE <<>>)
  \o (IF Includes(intentLower, "product") \/ Includes(intentLower, "service")
        \/ Includes(intentLower, "browse")
     THEN <<"browse.html">> ELSE <<>>)
  \o (IF Includes(intentLower, "detail") \/ Includes(intentLower, "individual")
     THEN <<"details.html">> ELSE <<>>)
  \o (IF Includes(intentLower, "contact") THEN <<"contact.html">> ELSE <<>>)

HasFile(files, name) == \E i \in 1..Len(files) : files[i].fileName = name

\* the loop over missingPages: push each page the list does not hold yet
RECURSIVE AddMissingPages(_, _)
AddMissingPages(files, pages) ==
  IF pages = <<>> THEN files
  ELSE AddMissingPages(
         IF HasFile(files, Head(pages)) THEN files
         ELSE Append(files, PlannedFile(Head(pages), "page")),
         Tail(pages))

\* parsed.files after the intent re-scan
WithRequestedPages(intentLower, files) ==
  IF ~isSimpleRequest(intentLower)
       /\ isComplexRequest(intentLower)
       /\ requestedPages(intentLower) # <<>>
  THEN AddMissingPages(files, requestedPages(intentLower))
  ELSE files

NormalizeKind(kind) ==
  IF kind \in {"page", "asset", "script", "style"} THEN kind ELSE "asset"

\* .map(...).filter(endsWith .html or .js)
NormalizeFiles(files) ==
  SelectSeq([i \in 1..Len(files) |->
               PlannedFile(files[i].fileName, NormalizeKind(files[i].kind))],
            LAMBDA f : EndsWith(f.fileName, ".html") \/ EndsWith(f.fileName, ".js"))

ensureFile(files, name, kind) ==
  IF ~HasFile(files, name) THEN Append(files, PlannedFile(name, kind)) ELSE files

MinimalArchitecture == <<PlannedFile("index.html", "page"), PlannedFile("app.js", "script")>>

\* response.kind: "error" (the model call throws), "invalid" (the reply is not
\* JSON), "nofiles" (JSON without a files array), "files" (JSON with files)
planArchitecture(intent, response) ==
  IF response.kind # "files" \/ NullEntry \in Range(response.files)
  THEN MinimalArchitecture
  ELSE ensureFile(
         ensureFile(
           NormalizeFiles(WithRequestedPages(ToLowerCase(intent), response.files)),
           "index.html", "page"),
         "app.js", "script")

(***************************************************************************)
(* Data values (DataItem fields and filter values): JavaScript values      *)
(* tagged with their type; a string is a sequence of characters.           *)
(***************************************************************************)
Str(s) == [t |-> "str", v |-> s]
Num(n) == [t |-> "num", v |-> <<n>>]
Arr(a) == [t |-> "arr", v |-> a]
Bool(b) == [t |-> "bool", v |-> <<b>>]
Undef == [t |-> "undef", v |-> <<>>]
Null == [t |-> "null", v |-> <<>>]
NaN == [t |-> "nan", v |-> <<>>]

IsStr(x) == x.t = "str"
IsNum(x) == x.t = "num"

\* ToBoolean
Truthy(x) ==
  CASE x.t = "str" -> x.v # <<>>
    [] x.t = "num" -> x.v[1] # 0
    [] x.t = "bool" -> x.v[1]
    [] x.t = "arr" -> TRUE
    [] OTHER -> FALSE

\* a || b
Or(a, b) == IF Truthy(a) THEN a ELSE b

\* a === b (two arrays are never the same object)
StrictEq(a, b) == a.t = b.t /\ a.t \notin {"nan", "arr"} /\ a.v = b.v

LowerChar(c) ==
  CASE c = "A" -> "a"
    [] c = "B" -> "b"
    [] c = "D" -> "d"
    [] OTHER -> c

\* String.prototype.toLowerCase
LowerStr(s) == [i \in 1..Len(s) |-> LowerChar(s[i])]

\* String.prototype.includes
StrIncludes(s, sub) ==
  \E i \in 0..(Len(s) - Len(sub)) : SubSeq(s, i + 1, i + Len(sub)) = sub

IsSpace(c) == c = " "

\* String.prototype.trim
RECURSIVE TrimStart(_)
TrimStart(s) == IF s # <<>> /\ IsSpace(Head(s)) THEN TrimStart(Tail(s)) ELSE s

RECURSIVE TrimEnd(_)
TrimEnd(s) ==
  IF s # <<>> /\ IsSpace(s[Len(s)]) THEN TrimEnd(SubSeq(s, 1, Len(s) - 1)) ELSE s

Trim(s) == TrimEnd(TrimStart(s))

Digits == <<"0", "1", "2", "3", "4", "5", "6", "7", "8", "9">>

IsDigit(c) == \E d \in 1..10 : Digits[d] = c

DigitValue(c) == (CHOOSE d \in 1..10 : Digits[d] = c) - 1

\* Number.prototype.toString for a natural number
RECURSIVE NatToStr(_)
NatToStr(n) ==
  IF n < 10 THEN <<Digits[n + 1]>> ELSE Append(NatToStr(n \div 10), Digits[(n % 10) + 1])

RECURSIVE Join(_, _)
Join(strs, sep) ==
  IF strs = <<>> THEN <<>>
  ELSE IF Len(strs) = 1 THEN strs[1]
  ELSE strs[1] \o sep \o Join(Tail(strs), sep)

\* String(x); the elements of an array are strings
ToStr(x) ==
  CASE x.t = "str" -> x.v
    [] x.t = "num" -> NatToStr(x.v[1])
    [] x.t = "arr" -> Join(x.v, <<",">>)
    [] x.t = "bool" -> IF x.v[1] THEN <<"t", "r", "u", "e">> ELSE <<"f", "a", "l", "s", "e">>
    [] x.t = "null" -> <<"n", "u", "l", "l">>
    [] x.t = "nan" -> <<"N", "a", "N">>
    [] OTHER -> <<"u", "n", "d", "e", "f", "i", "n", "e", "d">>

\* the value of the leading digits of s, -1 when there is none
RECURSIVE LeadingNumber(_, _)
LeadingNumber(s, acc) ==
  IF s # <<>> /\ IsDigit(Head(s))
  THEN LeadingNumber(Tail(s), (IF acc < 0 THEN 0 ELSE acc * 10) + DigitValue(Head(s)))
  ELSE acc

\* parseInt(s, 10) of a string without sign or leading blanks
ParseInt(s) == IF LeadingNumber(s, -1) < 0 THEN NaN ELSE Num(LeadingNumber(s, -1))

(***************************************************************************)
(* Dataset loader and filter (data-filter.ts).                             *)
(***************************************************************************)
Sources == {"movies", "companies", "products", "actors", "directors", "testimonials"}

DefaultLimit == 100

\* obj[key], undefined when the object has no such property
Get(obj, key) == IF key \in DOMAIN obj THEN obj[key] ELSE Undef

\* a file of the data root: kind "missing", "corrupt" (JSON.parse throws),
\* "object" (JSON that is no array) or "array"
DataFile(kind, items) == [kind |-> kind, items |-> items]

\* [threw, items]
Returned(items) == [threw |-> FALSE, items |-> items]
Thrown == [threw |-> TRUE, items |-> <<>>]

ReadJson(file) ==
  CASE file.kind = "corrupt" -> Thrown
    [] file.kind = "array" -> Returned(file.items)
    [] OTHER -> Returned(<<>>)

loadData(dataSource, dataRoot) ==
  IF dataSource \notin DOMAIN dataRoot \/ dataRoot[dataSource].kind = "missing"
  THEN IF dataRoot["movies"].kind # "missing"
       THEN \* the fallback returns JSON.parse(raw) unchecked
            IF dataRoot["movies"].kind = "corrupt" THEN Thrown
            ELSE Returned(dataRoot["movies"].items)
       ELSE Returned(<<>>)
  ELSE ReadJson(dataRoot[dataSource])

BusinessWord == <<"b", "u", "s", "i", "n", "e", "s", "s">>

\* String(item.field || "").toLowerCase().includes(needle)
FieldIncludes(value, needle) == StrIncludes(LowerStr(ToStr(Or(value, Str(<<>>)))), needle)

YearMatches(item, year) ==
  StrictEq(ParseInt(Slice(ToStr(Or(Or(Get(item, "Year"), Get(item, "year")), Str(<<>>))), 4)),
           year)

PersonasMatch(item, personasFilter) ==
  LET personas == Or(Get(item, "personas"), Arr(<<>>))
  IN IF personas.t = "arr"
     THEN \E i \in 1..Len(personas.v) : StrIncludes(LowerStr(personas.v[i]), personasFilter)
     ELSE StrIncludes(LowerStr(ToStr(personas)), personasFilter)

\* [...personas, ...useCases].join(" ").toLowerCase().includes("business")
AsList(value) == IF value.t = "arr" THEN value.v ELSE <<ToStr(value)>>

BusinessMatch(item) ==
  StrIncludes(
    LowerStr(Join(AsList(Or(Get(item, "personas"), Arr(<<>>)))
                    \o AsList(Or(Get(item, "useCases"), Arr(<<>>))), <<" ">>)),
    BusinessWord)

\* the collection-specific filters; a method call on a value that is no
\* string (genre.toLowerCase, location.trim, category.toLowerCase) throws
MoviesFilter(items, f) ==
  LET year == Get(f, "year")
      genre == Get(f, "genre")
      byYear == IF Truthy(year) THEN SelectSeq(items, LAMBDA it : YearMatches(it, year))
                ELSE items
  IN IF ~Truthy(genre) THEN Returned(byYear)
     ELSE IF ~IsStr(genre) THEN Thrown
     ELSE Returned(SelectSeq(byYear,
            LAMBDA it : FieldIncludes(Or(Get(it, "Genre"), Get(it, "genre")),
                                      LowerStr(genre.v))))

CompaniesFilter(items, f) ==
  LET location == Get(f, "location")
      industry == Get(f, "industry")
      byIndustry(xs) ==
        IF Truthy(industry) /\ IsStr(industry)
        THEN SelectSeq(xs, LAMBDA it : FieldIncludes(Get(it, "industry"), LowerStr(industry.v)))
        ELSE xs
  IN IF ~Truthy(location) THEN Returned(byIndustry(items))
     ELSE IF ~IsStr(location) THEN Thrown
     ELSE IF Trim(location.v) = <<>> THEN Returned(byIndustry(items))
     ELSE Returned(byIndustry(SelectSeq(items,
            LAMBDA it : FieldIncludes(Get(it, "location"), Trim(LowerStr(location.v))))))

ProductsFilter(items, f) ==
  LET category == Get(f, "category")
      personas == Get(f, "personas")
      byPersonas(xs) ==
        IF Truthy(personas)
        THEN SelectSeq(xs, LAMBDA it : PersonasMatch(it, LowerStr(ToStr(personas))))
        ELSE xs
      byBusiness(xs) ==
        IF Truthy(Get(f, "business"))
             \/ (IsStr(personas) /\ StrIncludes(LowerStr(personas.v), BusinessWord))
        THEN SelectSeq(xs, BusinessMatch)
        ELSE xs
  IN IF ~Truthy(category) THEN Returned(byBusiness(byPersonas(items)))
     ELSE IF ~IsStr(category) THEN Thrown
     ELSE Returned(byBusiness(byPersonas(SelectSeq(items,
            LAMBDA it : FieldIncludes(Get(it, "category"), LowerStr(category.v))))))

PeopleFilter(items, f) ==
  LET location == Get(f, "location")
  IN IF ~Truthy(location) THEN Returned(items)
     ELSE IF ~IsStr(location) THEN Thrown
     ELSE Returned(SelectSeq(items,
            LAMBDA it : FieldIncludes(Get(it, "location"), LowerStr(location.v))))

SourceFilter(dataSource, items, f) ==
  CASE dataSource = "movies" -> MoviesFilter(items, f)
    [] dataSource = "companies" -> CompaniesFilter(items, f)
    [] dataSource = "products" -> ProductsFilter(items, f)
    [] dataSource \in {"actors", "directors"} -> PeopleFilter(items, f)
    [] OTHER -> Returned(items)

\* Object.keys(otherFilters): the keys the destructuring does not take
OtherKeys(f) == DOMAIN f \ {"year", "genre", "location", "category", "limit"}

OtherFilterMatches(item, key, value) ==
  IF value.t \in {"undef", "null"} THEN TRUE
  ELSE IF IsStr(value) THEN FieldIncludes(Get(item, key), LowerStr(value.v))
  ELSE StrictEq(Get(item, key), value)

\* a filter that drops the keys the destructuring does not take
IgnoresOtherKeys(items, f) == items

OtherFilters(items, f) ==
  SelectSeq(items, LAMBDA it : \A key \in OtherKeys(f) : OtherFilterMatches(it, key, f[key]))

\* a filter that never truncates
NoTruncation(items, limit) == items

\* if (limit && filtered.length > limit) filtered = filtered.slice(0, limit)
LimitFilter(items, limit) ==
  IF Truthy(limit) /\ Len(items) > limit.v[1] THEN Slice(items, limit.v[1]) ELSE items

\* a fallback that returns the whole collection, as its warning says
FallbackReturnsAll(allData, filtered, limit) ==
  IF Len(filtered) = 0 /\ Len(allData) > 0 THEN allData ELSE filtered

\* the "never an empty site" policy at the end of filterData
ZeroResultFallback(allData, filtered, limit) ==
  IF Len(filtered) = 0 /\ Len(allData) > 0
  THEN Slice(allData, IF Truthy(limit) THEN limit.v[1] ELSE DefaultLimit)
  ELSE filtered

TookFallback(allData, filtered) == Len(filtered) = 0 /\ Len(allData) > 0

\* the records left by the filters and the limit, before the fallback
NaiveFilter(dataSource, allData, f) ==
  LET bySource == SourceFilter(dataSource, allData, f)
  IN IF bySource.threw THEN Thrown
     ELSE Returned(LimitFilter(OtherFilters(bySource.items, f), Get(f, "limit")))

filterData(dataSource, filters, dataRoot) ==
  LET allData == loadData(dataSource, dataRoot)
      naive == NaiveFilter(dataSource, allData.items, filters)
  IN IF allData.threw \/ naive.threw THEN Thrown
     ELSE Returned(ZeroResultFallback(allData.items, naive.items, Get(filters, "limit")))

(***************************************************************************)
(* detectDataSource (data-filter.ts).                                      *)
(***************************************************************************)
\* a classifier that looks for product words before company words
ProductsBeforeCompanies(intent) ==
  LET t == ToLowerCase(intent)
  IN IF Includes(t, "movie") \/ Includes(t, "film") THEN "movies"
     ELSE IF Includes(t, "review") THEN "testimonials"
     ELSE IF Includes(t, "actor") THEN "actors"
     ELSE IF Includes(t, "director") THEN "directors"
     ELSE IF Includes(t, "product") \/ Includes(t, "software") THEN "products"
     ELSE IF Includes(t, "company") \/ Includes(t, "corporate") \/ Includes(t, "mission")
     THEN "companies"
     ELSE "movies"

detectDataSource(intent) ==
  LET t == ToLowerCase(intent)
      has(k) == Includes(t, k)
      phrase(p) == IncludesPhrase(t, p)
  IN IF \/ has("movie") \/ has("movies") \/ has("film") \/ has("films")
        \/ has("cinema") \/ (has("browse") /\ has("movie"))
        \/ (has("action") /\ (has("movie") \/ has("genre")))
        \/ (has("genre") /\ has("movie"))
     THEN "movies"
     ELSE IF \/ has("testimonial") \/ has("testimonials")
             \/ (has("review") /\ ~has("movie"))
             \/ phrase(<<"customer", "feedback">>) \/ phrase(<<"customer", "review">>)
     THEN "testimonials"
     ELSE IF \/ has("actor") \/ has("actress")
             \/ phrase(<<"movie", "star">>) \/ phrase(<<"celebrity", "actor">>)
     THEN "actors"
     ELSE IF has("director") \/ has("filmmaker") \/ phrase(<<"directed", "by">>)
     THEN "directors"
     ELSE IF \/ phrase(<<"company", "website">>) \/ phrase(<<"business", "website">>)
             \/ phrase(<<"our", "company">>) \/ phrase(<<"our", "business">>)
             \/ phrase(<<"company's", "mission">>) \/ phrase(<<"company's", "vision">>)
             \/ phrase(<<"our", "mission">>) \/ phrase(<<"our", "vision">>)
             \/ phrase(<<"our", "services">>) \/ phrase(<<"company's", "services">>)
     THEN "companies"
     ELSE IF /\ (has("company") \/ has("business") \/ has("corporate"))
             /\ (has("mission") \/ has("vision") \/ has("about") \/ has("our"))
     THEN "companies"
     ELSE IF /\ (phrase(<<"", "product">>) \/ has("products"))
             /\ ~has("movie") /\ ~has("film")
     THEN IF has("company") \/ has("business")
          THEN IF phrase(<<"products", "for">>) \/ phrase(<<"show", "me", "products">>)
               THEN "products"
               ELSE "companies"
          ELSE "products"
     ELSE IF \/ has("company") \/ has("business") \/ has("corporate")
             \/ has("mission") \/ has("vision") \/ phrase(<<"about", "us">>)
     THEN "companies"
     ELSE IF /\ ~has("movie") /\ ~has("film")
             /\ \/ has("trial") \/ phrase(<<"sign", "up">>) \/ has("software")
                \/ has("app") \/ has("service") \/ has("tool")
     THEN "products"
     ELSE "movies"

(***************************************************************************)
(* Intent analyzer (intent-analyzer.ts).                                   *)
(***************************************************************************)
MaxValidLimit == 500

AllLanguageThreshold == 50

\* a limit check that trusts every number the model returns
AnyNumberLimit(parsedLimit) ==
  IF IsNum(parsedLimit) THEN parsedLimit.v[1] ELSE DefaultLimit

\* let limit = typeof parsed.limit === "number" && parsed.limit > 0 &&
\*             parsed.limit <= 500 ? parsed.limit : 100
ValidLimit(parsedLimit) ==
  IF IsNum(parsedLimit) /\ parsedLimit.v[1] > 0 /\ parsedLimit.v[1] <= MaxValidLimit
  THEN parsedLimit.v[1]
  ELSE DefaultLimit

WantsAll(intentLower) ==
  \/ Includes(intentLower, "all")
  \/ IncludesPhrase(intentLower, <<"all", "data">>)
  \/ IncludesPhrase(intentLower, <<"all", "companies">>)
  \/ IncludesPhrase(intentLower, <<"all", "products">>)
  \/ IncludesPhrase(intentLower, <<"show", "all">>)
  \/ IncludesPhrase(intentLower, <<"all", "services">>)

WantsOne(intentLower) ==
  \/ Includes(intentLower, "one")
  \/ Includes(intentLower, "single")
  \/ IncludesPhrase(intentLower, <<"just", "one">>)

\* an analyzer without the correction for "all" language
OnlySingularCorrection(intentLower, limit) ==
  IF limit = 1 /\ ~WantsOne(intentLower) THEN DefaultLimit ELSE limit

\* the limit after the two corrections
AdjustLimit(intentLower, limit) ==
  LET afterAll == IF WantsAll(intentLower) /\ limit < AllLanguageThreshold
                  THEN DefaultLimit ELSE limit
  IN IF afterAll = 1 /\ ~WantsOne(intentLower) THEN DefaultLimit ELSE afterAll

hasLocationKeywords(intentLower) ==
  \/ IncludesPhrase(intentLower, <<"in", "">>)
  \/ IncludesPhrase(intentLower, <<"from", "">>)
  \/ Includes(intentLower, "located")
  \/ IncludesPhrase(intentLower, <<"at", "">>)

Without(f, key) == [k \in DOMAIN f \ {key} |-> f[k]]

\* String(filters.location).toLowerCase(); a value that is no string is
\* rendered as a word no request of the model contains
LocationText(value) == IF IsStr(value) THEN ToLowerCase(value.v) ELSE <<"#value">>

\* a location the request does not mention is removed
CheckLocation(intentLower, filters) ==
  IF /\ Truthy(Get(filters, "location"))
     /\ ~IncludesText(intentLower, LocationText(filters["location"]))
     /\ ~hasLocationKeywords(intentLower)
  THEN Without(filters, "location")
  ELSE filters

\* the words the year regex \b(19|20)\d{2}\b matches, with parseInt of each
YearWords == {"1999", "2020", "2025"}

YearValue(w) ==
  CASE w = "1999" -> 1999
    [] w = "2020" -> 2020
    [] OTHER -> 2025

\* an extractor that keeps the matched text instead of parsing it
YearAsText(text) ==
  LET hits == {i \in 1..Len(text) : text[i] \in YearWords}
  IN IF hits = {} THEN Undef
     ELSE Str(<<text[CHOOSE i \in hits : \A j \in hits : i <= j]>>)

RECURSIVE FirstYear(_)
FirstYear(text) ==
  IF text = <<>> THEN Undef
  ELSE IF Head(text) \in YearWords THEN Num(YearValue(Head(text)))
  ELSE FirstYear(Tail(text))

Genres == <<<<"action">>, <<"sci-fi">>, <<"science", "fiction">>, <<"drama">>, <<"comedy">>,
            <<"horror">>>>

RECURSIVE FirstGenre(_, _)
FirstGenre(text, genres) ==
  IF genres = <<>> THEN Undef
  ELSE IF IncludesText(text, Head(genres))
  THEN IF Head(genres) = <<"science", "fiction">> THEN Str(<<"sci-fi">>) ELSE Str(Head(genres))
  ELSE FirstGenre(text, Tail(genres))

Cities == {"delhi", "mumbai", "bangalore", "pune", "hyderabad", "chennai", "kolkata",
           "london", "paris"}

\* words made of letters only: what [A-Z][a-z]+ matches under the i flag
IsName(w) == w \notin YearWords /\ w \notin {"", "sci-fi", "multi-page", "company's", "1850"}

\* (?:in|from|at|located in)\s+(Name(?:\s+Name)?): leftmost match
RECURSIVE FirstLocation(_)
FirstLocation(text) ==
  IF Len(text) < 2 THEN Undef
  ELSE IF SuffixesOf(text[1]) \cap {"in", "from", "at"} # {} /\ IsName(text[2])
  THEN IF Len(text) >= 3 /\ IsName(text[3]) THEN Str(<<text[2], text[3]>>)
       ELSE Str(<<text[2]>>)
  ELSE FirstLocation(Tail(text))

RECURSIVE FirstCity(_)
FirstCity(text) ==
  IF text = <<>> THEN Undef
  ELSE IF Head(text) \in Cities THEN Str(<<Head(text)>>)
  ELSE FirstCity(Tail(text))

\* the present (truthy) entries only
Present(f) == [k \in {k \in DOMAIN f : Truthy(f[k])} |-> f[k]]

\* the catch branch: keyword heuristics, limit 100, the detected source
HeuristicAnalysis(userIntent) ==
  LET intent == ToLowerCase(userIntent)
  IN [dataSource |-> detectDataSource(userIntent),
      filters |-> Present([year |-> FirstYear(intent),
                           genre |-> FirstGenre(intent, Genres),
                           location |-> Or(FirstLocation(intent), FirstCity(intent))]),
      limit |-> DefaultLimit,
      path |-> "fallback"]

\* response.kind: "error" (the model call throws), "invalid" (no JSON),
\* "json" with response.parsed = [dataSource, filters, limit]
analyzeIntent(userIntent, response) ==
  IF response.kind # "json" THEN HeuristicAnalysis(userIntent)
  ELSE LET parsed == response.parsed
           intentLower == ToLowerCase(userIntent)
       IN [dataSource |-> IF parsed.dataSource \in Sources THEN parsed.dataSource
                          ELSE detectDataSource(userIntent),
           filters |-> CheckLocation(intentLower, parsed.filters),
           limit |-> AdjustLimit(intentLower, ValidLimit(parsed.limit)),
           path |-> "model"]

(***************************************************************************)
(* Deployer (vercel-deployer.ts).  A CLI output is a text: a sequence of   *)
(* words, some of them URLs.  Each stream ends with a line terminator, so  *)
(* stdout + stderr is the concatenation of the two word sequences.         *)
(***************************************************************************)
DeploymentResult(success, url, error) ==
  [success |-> success, deployedUrl |-> url, error |-> error]

\* what /https?:\/\/err\.sh\/[^\s]+/ matches in a word
ErrorUrlIn(w) ==
  CASE w = "https://err.sh/vercel/no-token" -> w
    [] OTHER -> Undefined

\* /https?:\/\/[a-z0-9-]+\.vercel\.(app|com)(?=[\s\n\r\)\]\}\"\'\,\.]|$)/i in a word
AnchoredUrlIn(w) ==
  CASE w = "https://site-a.vercel.app" -> w
    [] w = "https://site-d.vercel.app." -> "https://site-d.vercel.app"
    [] OTHER -> Undefined

\* /https?:\/\/[a-z0-9-]+\.vercel\.(app|com)(?:\/[^\s\n\r\)\]\}\"\'\,]*)?/i in a word
LooseUrlIn(w) ==
  CASE w = "https://site-a.vercel.app" -> w
    [] w = "https://site-d.vercel.app." -> "https://site-d.vercel.app"
    [] w = "https://site-b.vercel.app/inspect" -> w
    [] w = "https://site-c.vercel.com/" -> w
    [] OTHER -> Undefined

\* url.replace(/\/$/, "")
StripTrailingSlash(url) ==
  CASE url = "https://site-c.vercel.com/" -> "https://site-c.vercel.com"
    [] OTHER -> url

\* url.match(/\.vercel\.(app|com)$/i)
EndsWithHostingSuffix(url) ==
  url \in {"https://site-a.vercel.app", "https://site-b.vercel.app",
           "https://site-c.vercel.com", "https://site-d.vercel.app"}

\* a final validation that leaves the URL as it is
KeepsPath(url) == url

\* url.match(/https?:\/\/[a-z0-9-]+\.vercel\.(app|com)/i)
CleanMatch(url) ==
  CASE url = "https://site-b.vercel.app/inspect" -> "https://site-b.vercel.app"
    [] OTHER -> url

\* the first match in a text, given what the pattern matches in each of its
\* words; Undefined when no word matches
FirstMatch(matches) ==
  LET hits == {i \in 1..Len(matches) : matches[i] # Undefined}
  IN IF hits = {} THEN Undefined
     ELSE matches[CHOOSE i \in hits : \A j \in hits : i <= j]

\* the URL extraction of lines 203-235
ExtractUrl(fullOutput) ==
  LET anchored == FirstMatch([i \in 1..Len(fullOutput) |-> AnchoredUrlIn(fullOutput[i])])
      urlMatch == IF anchored # Undefined THEN anchored
                  ELSE FirstMatch([i \in 1..Len(fullOutput) |-> LooseUrlIn(fullOutput[i])])
      stripped == StripTrailingSlash(urlMatch)
  IN IF urlMatch = Undefined THEN Undefined
     ELSE IF ~EndsWithHostingSuffix(stripped) THEN CleanMatch(stripped)
     ELSE stripped

MentionsCredentials(fullOutput) ==
  LET lower == ToLowerCase(fullOutput)
  IN \/ IncludesPhrase(lower, <<"no", "credentials">>)
     \/ Includes(lower, "authentication")
     \/ Includes(lower, "token")

\* a deployer that takes every non-zero exit for a failed command
ExitCodeIsError(exec) == exec.exit # 0

\* the inner try/catch around execAsync: a non-zero exit is an error of its
\* own only when both streams are empty
CommandError(exec) == exec.exit # 0 /\ exec.stdout = <<>> /\ exec.stderr = <<>>

\* lines 187-252, given the outcome of the CLI command
InterpretOutput(exec) ==
  LET fullOutput == exec.stdout \o exec.stderr
      deployedUrl == ExtractUrl(fullOutput)
  IN IF CommandError(exec)
     THEN DeploymentResult(FALSE, Undefined, "Command failed")
     ELSE IF FirstMatch([i \in 1..Len(fullOutput) |-> ErrorUrlIn(fullOutput[i])]) # Undefined
     THEN DeploymentResult(FALSE, Undefined, "Vercel deployment failed")
     ELSE IF deployedUrl # Undefined
     THEN DeploymentResult(TRUE, deployedUrl, Undefined)
     ELSE IF MentionsCredentials(fullOutput)
     THEN DeploymentResult(FALSE, Undefined, "Vercel authentication failed")
     ELSE DeploymentResult(FALSE, Undefined, "Could not parse deployment URL")

\* the part of deployToVercel before the CLI command: [result, wroteDescriptor, runsCli];
\* env.token: VERCEL_TOKEN is set; hasDescriptor: vercel.json exists;
\* env.writeFails: writeFileSync throws
PrepareDeployment(env, hasDescriptor) ==
  IF ~env.token
  THEN [result |-> DeploymentResult(FALSE, Undefined, "VERCEL_TOKEN not set"),
        wroteDescriptor |-> FALSE, runsCli |-> FALSE]
  ELSE IF ~hasDescriptor /\ env.writeFails
  THEN [result |-> DeploymentResult(FALSE, Undefined, "write failed"),
        wroteDescriptor |-> FALSE, runsCli |-> FALSE]
  ELSE [result |-> DeploymentResult(FALSE, Undefined, Undefined),
        wroteDescriptor |-> ~hasDescriptor, runsCli |-> TRUE]

deployToVercel(env, hasDescriptor, exec) ==
  LET prepared == PrepareDeployment(env, hasDescriptor)
  IN IF prepared.runsCli
     THEN [prepared EXCEPT !.result = InterpretOutput(exec)]
     ELSE prepared

(***************************************************************************)
(* Website validator (website-validator.ts).                               *)
(***************************************************************************)
ValidationIssue(fileName, severity) == [fileName |-> fileName, severity |-> severity]

NullIssue == [fileName |-> "null", severity |-> "null"]

ValidationResult(hasIssues, issues, fixedFiles) ==
  [hasIssues |-> hasIssues, issues |-> issues, fixedFiles |-> fixedFiles]

NoIssuesFound == ValidationResult(FALSE, <<>>, <<>>)

\* a validator that repairs warnings as well
FixesEverySeverity(issue, generatedFiles) == HasFile(generatedFiles, issue.fileName)

\* an issue is fixed when it is an error naming a generated file
ShouldFix(issue, generatedFiles) ==
  issue.severity = "error" /\ HasFile(generatedFiles, issue.fileName)

\* the loop over the issues from issue i on; failAt is the index of the issue
\* whose fix (the model call or the write) throws, 0 when none does.
\* [threw, fixedFiles, written]: written lists the files overwritten so far
RECURSIVE FixLoop(_, _, _, _, _)
FixLoop(issues, i, generatedFiles, failAt, acc) ==
  IF i > Len(issues) THEN acc
  ELSE IF issues[i] = NullIssue THEN [acc EXCEPT !.threw = TRUE]
  ELSE IF ~ShouldFix(issues[i], generatedFiles)
  THEN FixLoop(issues, i + 1, generatedFiles, failAt, acc)
  ELSE IF i = failAt THEN [acc EXCEPT !.threw = TRUE]
  ELSE FixLoop(issues, i + 1, generatedFiles, failAt,
               [acc EXCEPT !.fixedFiles = Append(@, issues[i].fileName),
                           !.written = Append(@, issues[i].fileName)])

\* review.kind: "error" (the review call throws), "invalid" (no JSON),
\* "notarray", or "issues" with review.issues; readFails: reading a generated
\* file throws, outside the try block.
\* [threw, result, written]
validateAndFixWebsite(generatedFiles, review, failAt, readFails) ==
  IF readFails
  THEN [threw |-> TRUE, result |-> NoIssuesFound, written |-> <<>>]
  ELSE IF review.kind # "issues"
  THEN [threw |-> FALSE, result |-> NoIssuesFound, written |-> <<>>]
  ELSE LET loop == FixLoop(review.issues, 1, generatedFiles, failAt,
                           [threw |-> FALSE, fixedFiles |-> <<>>, written |-> <<>>])
       IN [threw |-> FALSE,
           result |-> IF loop.threw THEN NoIssuesFound
                      ELSE ValidationResult(Len(review.issues) > 0, review.issues,
                                            loop.fixedFiles),
           written |-> loop.written]

(***************************************************************************)
(* The orchestrator and the job store (website-generator.ts), driven by    *)
(* POST /api/generate-website (server.ts).  A request runs from one await  *)
(* to the next in one step; the steps of different requests interleave.    *)
(***************************************************************************)
VARIABLES
  now,               \* Date.now()
  vercelToken,       \* process.env.VERCEL_TOKEN is set
  pc,                \* per request: where its handler or background task waits
  projectId,         \* per request: the id the handler computed
  statusStore,       \* Map projectId -> GenerationStatus
  currentProjectId,  \* the job the console capture appends to
  plan,              \* per request: plan.files (their names)
  fileIdx,           \* per request: the index of the file being generated
  disk,              \* per project directory: the request that last wrote each file
  deployment,        \* per request: the result of deployToVercel, once called
  ret,               \* per request: the status generateWebsite returned
  cliRuns,           \* the number of deployment CLI commands executed
  websiteDetails,    \* per request: the branding of the request body
  gen,               \* per request: the generateFile call in flight, or the last one
  lastCapture,       \* the job that called startLogCapture last
  lastLine,          \* the last intercepted console line: the log it was appended to
  call               \* one call of a component, for the component specifications

pipeVars == <<now, vercelToken, pc, projectId, statusStore, currentProjectId, plan,
              fileIdx, disk, deployment, ret, cliRuns, websiteDetails, gen, lastCapture,
              lastLine>>

vars == <<now, vercelToken, pc, projectId, statusStore, currentProjectId, plan,
          fileIdx, disk, deployment, ret, cliRuns, websiteDetails, gen, lastCapture,
          lastLine, call>>

Req == 1..MaxReq

Ids == 1..MaxTime

NoId == 0

DiskNames == HtmlNames \cup JsNames \cup {"data.json", "vercel.json"}

GenerationStatus(status, message, deployedUrl) ==
  [status |-> status, message |-> message, deployedUrl |-> deployedUrl]

\* statusStore.get(id) of an id the map does not hold
NoStatus == GenerationStatus(Undefined, Undefined, Undefined)

getGenerationStatus(id) == statusStore[id]

NotCalled == [called |-> FALSE, result |-> DeploymentResult(FALSE, Undefined, Undefined)]

Called(result) == [called |-> TRUE, result |-> result]

\* the websiteDetails of a request body; Undefined for a field it does not carry
WebsiteDetails(websiteName, tagline, description) ==
  [websiteName |-> websiteName, tagline |-> tagline, description |-> description]

NoDetails == WebsiteDetails(Undefined, Undefined, Undefined)

\* const websiteName = websiteDetails?.websiteName || "SkyThought"
WebsiteNameUsed(details) ==
  IF details.websiteName # Undefined THEN details.websiteName ELSE "SkyThought"

AllPossiblePages == <<"index.html", "about.html", "details.html", "browse.html", "contact.html">>

\* the optional argument existingPages of generateFile
Pages(pages) == [given |-> TRUE, pages |-> pages]

NoPages == [given |-> FALSE, pages |-> <<>>]

\* the pages the navigation of an HTML file may link to
OtherPages(fileName, existingPages) ==
  SelectSeq(IF existingPages.given THEN existingPages.pages ELSE AllPossiblePages,
            LAMBDA page : page # fileName /\ EndsWith(page, ".html"))

\* what a call generateFile(fileName, ..., existingPages, websiteDetails) builds
\* its prompt from
generateFile(fileName, existingPages, details) ==
  [fileName |-> fileName,
   websiteDetails |-> details,
   websiteName |-> WebsiteNameUsed(details),
   otherPages |-> IF EndsWith(fileName, ".html") THEN OtherPages(fileName, existingPages)
                  ELSE <<>>]

NoFileCall == generateFile("", Pages(<<>>), NoDetails)

\* generateFile(file.fileName, file.purpose, filteredData, analysis.dataSource,
\* provider): the call of the file loop passes neither pages nor branding
FileLoopCall(fileName) == generateFile(fileName, NoPages, NoDetails)

\* an intercepted console line and the job whose log it was appended to
\* (NoId: to none)
Line(to) == [emitted |-> TRUE, to |-> to]

NoLine == [emitted |-> FALSE, to |-> NoId]

NoCall == [fn |-> "none", args |-> <<>>, done |-> FALSE, result |-> <<>>]

PipeInit ==
  /\ now = 1
  /\ pc = [r \in Req |-> "idle"]
  /\ projectId = [r \in Req |-> NoId]
  /\ statusStore = [id \in Ids |-> NoStatus]
  /\ currentProjectId = NoId
  /\ plan = [r \in Req |-> <<>>]
  /\ fileIdx = [r \in Req |-> 0]
  /\ disk = [id \in Ids |-> [n \in DiskNames |-> 0]]
  /\ deployment = [r \in Req |-> NotCalled]
  /\ ret = [r \in Req |-> NoStatus]
  /\ cliRuns = 0
  /\ websiteDetails = [r \in Req |-> NoDetails]
  /\ gen = [r \in Req |-> NoFileCall]
  /\ lastCapture = NoId
  /\ lastLine = NoLine

Init ==
  /\ PipeInit
  /\ vercelToken \in BOOLEAN
  /\ call = NoCall

\* the inputs of the pipeline steps
RequestDetails == {NoDetails, WebsiteDetails("Acme", "We build", Undefined)}

PipeIntents == {<<"show", "movies">>, <<"Company", "website", "about">>}

FilesResponse(files) == [kind |-> "files", files |-> files]

ErrorResponse == [kind |-> "error", files |-> <<>>]

PipeResponses ==
  {ErrorResponse, FilesResponse(<<>>),
   FilesResponse(<<PlannedFile("index.html", "page"), PlannedFile("index.html", "page")>>)}

IssuesReview(issues) == [kind |-> "issues", issues |-> issues]

PipeReviews ==
  {[kind |-> "error", issues |-> <<>>], IssuesReview(<<>>),
   IssuesReview(<<ValidationIssue("index.html", "error")>>),
   IssuesReview(<<ValidationIssue("app.js", "warning")>>)}

Exec(exit, stdout, stderr) == [exit |-> exit, stdout |-> stdout, stderr |-> stderr]

PipeExecs ==
  {Exec(0, <<"https://site-a.vercel.app">>, <<>>),
   Exec(1, <<>>, <<"https://site-b.vercel.app/inspect">>),
   Exec(1, <<>>, <<>>),
   Exec(0, <<"https://err.sh/vercel/no-token">>, <<>>),
   Exec(1, <<"Error:">>, <<"Token">>)}

PipeFilters ==
  {<<>>, [genre |-> Str(<<"a">>), limit |-> Num(DefaultLimit)],
   [genre |-> Arr(<<<<"a">>>>), limit |-> Num(DefaultLimit)]}

PipeDataRoots ==
  {[s \in Sources |-> DataFile("array", <<[Genre |-> Str(<<"A", "b">>)]>>)],
   [s \in Sources |-> DataFile("corrupt", <<>>)]}

Names(files) == [i \in 1..Len(files) |-> files[i].fileName]

Write(d, id, name, r) == [d EXCEPT ![id][name] = r]

RECURSIVE WriteAll(_, _, _, _)
WriteAll(d, id, names, r) ==
  IF names = <<>> THEN d ELSE WriteAll(Write(d, id, Head(names), r), id, Tail(names), r)

Tick ==
  /\ now < MaxTime
  /\ now' = now + 1
  /\ UNCHANGED <<vercelToken, pc, projectId, statusStore, currentProjectId, plan, fileIdx,
                 disk, deployment, ret, cliRuns, websiteDetails, gen, lastCapture, lastLine,
                 call>>

\* POST /api/generate-website up to `await import`: 400 on a bad intent,
\* else the id is taken from the clock (requests arrive before the clock's
\* last value, so that the clock can pass every id)
Receive(r) ==
  /\ pc[r] = "idle"
  /\ now < MaxTime
  /\ \E valid \in BOOLEAN :
       IF valid  \* the body carries an intent
       THEN /\ projectId' = [projectId EXCEPT ![r] = now]
            /\ \E details \in RequestDetails :
                 websiteDetails' = [websiteDetails EXCEPT ![r] = details]
            /\ pc' = [pc EXCEPT ![r] = "importing"]
       ELSE /\ pc' = [pc EXCEPT ![r] = "rejected"]
            /\ UNCHANGED <<projectId, websiteDetails>>
  /\ UNCHANGED <<now, vercelToken, gen, lastCapture, lastLine, statusStore,
                 currentProjectId, plan, fileIdx, disk, deployment, ret, cliRuns, call>>

\* startLogCapture, res.json({projectId, status: "in_progress"}), and the
\* background task up to the model call of rephraseIntent
Respond(r) ==
  /\ pc[r] = "importing"
  /\ currentProjectId' = projectId[r]
  /\ pc' = [pc EXCEPT ![r] = "rephrasing"]
  /\ lastCapture' = projectId[r]
  /\ lastLine' = Line(projectId[r])
  /\ UNCHANGED <<now, vercelToken, websiteDetails, gen, projectId, statusStore, plan,
                 fileIdx, disk, deployment, ret, cliRuns, call>>

\* rephraseIntent returns (its catch returns the original intent); analyzeIntent
\* runs up to its model call.  A model call takes longer than a millisecond:
\* the clock has left the value the request's id was taken from
RephraseDone(r) ==
  /\ pc[r] = "rephrasing"
  /\ now > projectId[r]
  /\ pc' = [pc EXCEPT ![r] = "analyzing"]
  /\ lastLine' = Line(currentProjectId)
  /\ UNCHANGED <<now, vercelToken, websiteDetails, gen, lastCapture, projectId,
                 statusStore, currentProjectId, plan, fileIdx, disk, deployment, ret,
                 cliRuns, call>>

\* analyzeIntent returns (its catch returns the heuristic analysis);
\* verifyDataSource runs up to its model call
AnalyzeDone(r) ==
  /\ pc[r] = "analyzing"
  /\ pc' = [pc EXCEPT ![r] = "verifying"]
  /\ lastLine' = Line(currentProjectId)
  /\ UNCHANGED <<now, vercelToken, websiteDetails, gen, lastCapture, projectId,
                 statusStore, currentProjectId, plan, fileIdx, disk, deployment, ret,
                 cliRuns, call>>

\* verifyDataSource returns, then filterData: an exception of filterData
\* reaches the catch of the background task, which only logs it
VerifyDone(r) ==
  /\ pc[r] = "verifying"
  /\ \E src \in Sources, f \in PipeFilters, root \in PipeDataRoots :
       pc' = [pc EXCEPT ![r] = IF filterData(src, f, root).threw THEN "aborted"
                                ELSE "loading"]
  /\ lastLine' = Line(currentProjectId)
  /\ UNCHANGED <<now, vercelToken, websiteDetails, gen, lastCapture, projectId,
                 statusStore, currentProjectId, plan, fileIdx, disk, deployment, ret,
                 cliRuns, call>>

\* lines 179-186 of generateWebsite
JobDeployedUrl(result) ==
  IF result.success /\ result.deployedUrl # Undefined THEN result.deployedUrl ELSE Undefined

\* the catch block of generateWebsite
ErrorStatus(message) == GenerationStatus("failed", message, Undefined)

\* an orchestrator that lets a failed deployment fail the job
FailedDeploymentFailsJob(result) ==
  IF ~result.success /\ result.error # Undefined
  THEN ErrorStatus(result.error)
  ELSE GenerationStatus("completed", "Website generated successfully",
                        JobDeployedUrl(result))

FinalStatus(result) ==
  GenerationStatus("completed",
                   IF JobDeployedUrl(result) # Undefined
                   THEN "Website generated and deployed successfully"
                   ELSE "Website generated successfully",
                   JobDeployedUrl(result))

\* statusStore.set(projectId, status); stopLogCapture(); return status
Finish(r, status) ==
  /\ statusStore' = [statusStore EXCEPT ![projectId[r]] = status]
  /\ currentProjectId' = NoId
  /\ ret' = [ret EXCEPT ![r] = status]
  /\ pc' = [pc EXCEPT ![r] = "done"]

\* generateWebsite(..., existingProjectId) up to the model call of
\* planArchitecture: the job is registered, the directory and data.json written
StartGenerate(r) ==
  /\ pc[r] = "loading"
  /\ \E fsOk \in BOOLEAN :
       IF fsOk
       THEN /\ statusStore' = [statusStore EXCEPT ![projectId[r]] =
                                 GenerationStatus("in_progress", "Starting generation",
                                                  Undefined)]
            /\ disk' = Write(disk, projectId[r], "data.json", r)
            /\ pc' = [pc EXCEPT ![r] = "planning"]
            /\ UNCHANGED <<currentProjectId, ret>>
       ELSE /\ Finish(r, ErrorStatus("EACCES: permission denied"))
            /\ UNCHANGED disk
  /\ lastLine' = Line(currentProjectId)
  /\ UNCHANGED <<now, vercelToken, websiteDetails, gen, lastCapture, projectId, plan,
                 fileIdx, deployment, cliRuns, call>>

\* planArchitecture returns; generateFile of the first file up to its model call
PlanDone(r) ==
  /\ pc[r] = "planning"
  /\ \E intent \in PipeIntents, response \in PipeResponses :
       /\ plan' = [plan EXCEPT ![r] = Names(planArchitecture(intent, response))]
       /\ gen' = [gen EXCEPT ![r] = FileLoopCall(plan'[r][1])]
  /\ fileIdx' = [fileIdx EXCEPT ![r] = 1]
  /\ pc' = [pc EXCEPT ![r] = "generating"]
  /\ lastLine' = Line(currentProjectId)
  /\ UNCHANGED <<now, vercelToken, websiteDetails, lastCapture, projectId, statusStore,
                 currentProjectId, disk, deployment, ret, cliRuns, call>>

\* a file loop that leaves after its first file
StopsAfterFirstFile(idx, files) == FALSE

\* for (const file of plan.files): a file follows the one at position idx
MoreFiles(idx, files) == idx < Len(files)

\* generateFile returns and the file is written, or it throws; after the last
\* file validateAndFixWebsite runs up to its review call
FileDone(r) ==
  /\ pc[r] = "generating"
  /\ \E ok \in BOOLEAN :
       IF ok
       THEN /\ disk' = Write(disk, projectId[r], plan[r][fileIdx[r]], r)
            /\ IF MoreFiles(fileIdx[r], plan[r])
               THEN /\ fileIdx' = [fileIdx EXCEPT ![r] = @ + 1]
                    /\ gen' = [gen EXCEPT ![r] = FileLoopCall(plan[r][fileIdx'[r]])]
                    /\ UNCHANGED pc
               ELSE /\ pc' = [pc EXCEPT ![r] = "validating"]
                    /\ UNCHANGED <<fileIdx, gen>>
            /\ UNCHANGED <<statusStore, currentProjectId, ret>>
       ELSE /\ Finish(r, ErrorStatus("Claude did not return text content for file generation."))
            /\ UNCHANGED <<disk, fileIdx, gen>>
  /\ lastLine' = Line(currentProjectId)
  /\ UNCHANGED <<now, vercelToken, websiteDetails, lastCapture, projectId, plan,
                 deployment, cliRuns, call>>

\* an orchestrator that calls the deployer whatever the environment
AlwaysDeploy(token) == TRUE

\* if (process.env.VERCEL_TOKEN)
ShouldDeploy(token) == token

\* the message of an exception that leaves validateAndFixWebsite
ValidatorThrew == "ENOENT: no such file or directory"

\* validateAndFixWebsite returns or throws; then the deployment is skipped,
\* or deployToVercel runs up to the CLI command
ValidateDone(r) ==
  /\ pc[r] = "validating"
  /\ \E review \in PipeReviews, failAt \in 0..1, readFails \in BOOLEAN, writeFails \in BOOLEAN :
       LET v == validateAndFixWebsite([i \in 1..Len(plan[r]) |-> [fileName |-> plan[r][i]]],
                                      review, failAt, readFails)
           fixed == WriteAll(disk, projectId[r], v.written, r)
           prepared == PrepareDeployment([token |-> vercelToken, writeFails |-> writeFails],
                                         disk[projectId[r]]["vercel.json"] # 0)
       IN IF v.threw
          THEN /\ Finish(r, ErrorStatus(ValidatorThrew))
               /\ UNCHANGED <<disk, deployment, cliRuns>>
          ELSE IF ~ShouldDeploy(vercelToken)
          THEN /\ Finish(r, FinalStatus(NotCalled.result))
               /\ disk' = fixed
               /\ UNCHANGED <<deployment, cliRuns>>
          ELSE IF ~prepared.runsCli
          THEN /\ Finish(r, FinalStatus(prepared.result))
               /\ disk' = fixed
               /\ deployment' = [deployment EXCEPT ![r] = Called(prepared.result)]
               /\ UNCHANGED cliRuns
          ELSE /\ disk' = IF prepared.wroteDescriptor
                          THEN Write(fixed, projectId[r], "vercel.json", r) ELSE fixed
               /\ cliRuns' = cliRuns + 1
               /\ pc' = [pc EXCEPT ![r] = "deploying"]
               /\ UNCHANGED <<statusStore, currentProjectId, ret, deployment>>
  /\ lastLine' = Line(currentProjectId)
  /\ UNCHANGED <<now, vercelToken, websiteDetails, gen, lastCapture, projectId, plan,
                 fileIdx, call>>

\* the CLI command ends; deployToVercel returns and the job completes
DeployDone(r) ==
  /\ pc[r] = "deploying"
  /\ \E exec \in PipeExecs :
       /\ deployment' = [deployment EXCEPT ![r] = Called(InterpretOutput(exec))]
       /\ Finish(r, FinalStatus(InterpretOutput(exec)))
  /\ lastLine' = Line(currentProjectId)
  /\ UNCHANGED <<now, vercelToken, websiteDetails, gen, lastCapture, projectId, plan,
                 fileIdx, disk, cliRuns, call>>

Next ==
  \/ Tick
  \/ \E r \in Req :
       \/ Receive(r) \/ Respond(r) \/ RephraseDone(r) \/ AnalyzeDone(r) \/ VerifyDone(r)
       \/ StartGenerate(r) \/ PlanDone(r) \/ FileDone(r) \/ ValidateDone(r) \/ DeployDone(r)

Spec == Init /\ [][Next]_vars

(***************************************************************************)
(* Component specifications: one call of a component on an input drawn     *)
(* from a pool; the pipeline stands still.                                 *)
(***************************************************************************)
Pending(fn, args) == [fn |-> fn, args |-> args, done |-> FALSE, result |-> <<>>]

CallInit(fn, Args) ==
  /\ PipeInit
  /\ vercelToken = FALSE
  /\ call \in {Pending(fn, a) : a \in Args}

Return(result) ==
  /\ ~call.done
  /\ call' = [call EXCEPT !.done = TRUE, !.result = result]
  /\ UNCHANGED pipeVars

Returned_(fn) == call.fn = fn /\ call.done

(***************************************************************************)
(* planArchitecture on every intent of PlanIntents and every model reply   *)
(* of at most MaxPlanFiles entries.                                        *)
(***************************************************************************)
PlanIntents ==
  {<<"show", "movies">>, <<"simple", "list">>, <<"Company", "website", "about">>,
   <<"website", "about", "contact">>, <<"basic", "website", "about">>,
   <<"platform", "Products", "pricing">>,
   <<"company", "website", "with", "mission", "and", "products">>}

PlanEntries ==
  {PlannedFile("index.html", "page"), PlannedFile("app.js", "script"),
   PlannedFile("about.html", "page"), PlannedFile("styles.css", "style"), NullEntry}

PlanResponses ==
  {ErrorResponse, [kind |-> "invalid", files |-> <<>>], [kind |-> "nofiles", files |-> <<>>]}
    \cup {FilesResponse(files) : files \in SeqsUpTo(PlanEntries, MaxPlanFiles)}

PlanArgs == [intent : PlanIntents, response : PlanResponses]

CallPlanArchitecture ==
  /\ call.fn = "planArchitecture"
  /\ Return(planArchitecture(call.args.intent, call.args.response))

SpecPlan == CallInit("planArchitecture", PlanArgs) /\ [][CallPlanArchitecture]_vars

CountFile(files, name) == Cardinality({i \in 1..Len(files) : files[i].fileName = name})

\* C4: the plan planArchitecture returns holds exactly one entry named
\* index.html and exactly one named app.js, whatever the model replied.
\* The code only adds a missing entry (ensureFile); it never removes a
\* repeated one, so a reply that lists index.html twice refutes this.
C4_ExactlyOneIndexAndApp ==
  Returned_("planArchitecture") =>
    /\ CountFile(call.result, "index.html") = 1
    /\ CountFile(call.result, "app.js") = 1

(***************************************************************************)
(* filterData on every collection of at most MaxData records of            *)
(* FilterItems, every filter set of FilterSets and every limit of          *)
(* FilterLimits.                                                           *)
(***************************************************************************)
Chars(w) ==
  CASE w = "ab" -> <<"a", "b">>
    [] w = "Ab" -> <<"A", "b">>
    [] w = "NY" -> <<"N", "Y">>
    [] w = "ny" -> <<"n", "y">>
    [] w = "zz" -> <<"z", "z">>
    [] w = "business" -> BusinessWord
    [] OTHER -> <<>>

FilterItems ==
  {[Genre |-> Str(Chars("Ab")), Year |-> Num(2025)],
   [genre |-> Str(Chars("zz")), year |-> Str(<<"1", "9", "9", "9", "-", "0", "1">>)],
   [location |-> Str(Chars("NY")), industry |-> Str(Chars("ab"))],
   [category |-> Str(Chars("ab")), personas |-> Arr(<<BusinessWord>>)]}

FilterSets ==
  {<<>>,
   [genre |-> Str(Chars("ab"))], [genre |-> Str(Chars("NY"))], [genre |-> Arr(<<Chars("ab")>>)],
   [year |-> Num(2025)], [year |-> Num(1999), genre |-> Str(Chars("zz"))],
   [year |-> Str(<<"2", "0", "2", "5">>)],
   [location |-> Str(Chars("ny"))], [location |-> Str(<<" ">>)], [location |-> Num(7)],
   [location |-> Str(Chars("zz")), industry |-> Str(Chars("ab"))],
   [category |-> Str(Chars("ab"))], [category |-> Bool(TRUE)],
   [personas |-> Str(BusinessWord)], [business |-> Bool(TRUE)], [business |-> Null],
   [industry |-> Str(Chars("zz"))], [Year |-> Num(2025)], [industry |-> Str(Chars("Ab"))]}

FilterLimits == {Undef, Num(0), Num(1), Num(2), Num(DefaultLimit)}

WithLimit(f, limit) ==
  IF limit = Undef THEN f
  ELSE [k \in DOMAIN f \cup {"limit"} |-> IF k = "limit" THEN limit ELSE f[k]]

FilterFiles ==
  {DataFile("missing", <<>>), DataFile("corrupt", <<>>), DataFile("object", <<>>)}
    \cup {DataFile("array", items) : items \in SeqsUpTo(FilterItems, MaxData)}

\* the data root: the file of the requested collection, and a movies file
DataRoot(dataSource, file) ==
  [s \in Sources |->
     IF s = dataSource THEN file
     ELSE DataFile("array", <<[Genre |-> Str(Chars("Ab")), Year |-> Num(2025)]>>)]

FilterArgs ==
  {[dataSource |-> src, filters |-> WithLimit(f, limit), dataRoot |-> DataRoot(src, file)] :
     src \in Sources \cup {"unknown"}, f \in FilterSets, limit \in FilterLimits,
     file \in FilterFiles}

CallFilterData ==
  /\ call.fn = "filterData"
  /\ Return(filterData(call.args.dataSource, call.args.filters, call.args.dataRoot))

SpecFilter == CallInit("filterData", FilterArgs) /\ [][CallFilterData]_vars

\* the collection the call loaded, and what the filters and the limit left of it
LoadedOfCall == loadData(call.args.dataSource, call.args.dataRoot)

NaiveOfCall == NaiveFilter(call.args.dataSource, LoadedOfCall.items, call.args.filters)

LimitOfCall == Get(call.args.filters, "limit")

FiltersLeaveNothing ==
  /\ Returned_("filterData")
  /\ ~LoadedOfCall.threw
  /\ LoadedOfCall.items # <<>>
  /\ ~NaiveOfCall.threw
  /\ NaiveOfCall.items = <<>>

PositiveLimit == IsNum(LimitOfCall) /\ LimitOfCall.v[1] >= 1

AnalyzeIntents ==
  {<<"show", "movies">>, <<"show", "all", "movies">>, <<"just", "one", "movie">>,
   <<"a", "single", "Company">>, <<"small", "shops">>, <<"companies", "in", "paris">>,
   <<"2025", "action", "movies">>, <<"all", "Products", "from", "london">>,
   <<"movies", "from", "1850">>, <<"2020", "or", "1999", "movies">>}

ParsedLimits ==
  {Undef, Null, NaN, Str(<<"5">>), Bool(TRUE), Num(0 - 1), Num(0), Num(1), Num(2), Num(49),
   Num(50), Num(DefaultLimit), Num(MaxValidLimit), Num(MaxValidLimit + 1)}

ParsedFilters == {<<>>, [location |-> Str(<<"Paris">>)], [genre |-> Str(<<"action">>)]}

AnalyzeResponses ==
  {[kind |-> k, parsed |-> [dataSource |-> "movies", filters |-> <<>>, limit |-> Undef]] :
     k \in {"error", "invalid"}}
    \cup {[kind |-> "json", parsed |-> [dataSource |-> src, filters |-> f, limit |-> limit]] :
            src \in {"movies", "products", "films"}, f \in ParsedFilters,
            limit \in ParsedLimits}

AnalyzeArgs == [userIntent : AnalyzeIntents, response : AnalyzeResponses]

CallAnalyzeIntent ==
  /\ call.fn = "analyzeIntent"
  /\ Return(analyzeIntent(call.args.userIntent, call.args.response))

SpecAnalyze == CallInit("analyzeIntent", AnalyzeArgs) /\ [][CallAnalyzeIntent]_vars

\* the limit the model's JSON carried, when the reply was JSON
ParsedLimitOfCall == call.args.response.parsed.limit

\* a number in the interval (0, 500]
InLimitInterval(x) == x.t = "num" /\ x.v[1] > 0 /\ x.v[1] <= 500

\* C6: a parsed limit that is absent, no number, or outside (0, 500] makes
\* analyzeIntent return limit exactly 100, and so does the heuristic path;
\* the limit returned on any path is greater than 0 and at most 500.
C6_LimitDefaultAndRange ==
  Returned_("analyzeIntent") =>
    /\ (call.args.response.kind # "json" \/ ~InLimitInterval(ParsedLimitOfCall)
          => call.result.limit = 100)
    /\ call.result.limit > 0
    /\ call.result.limit <= 500

\* the model returned a number above 500 and the analyzer substituted 100
C6_Witness ==
  /\ Returned_("analyzeIntent")
  /\ call.args.response.kind = "json"
  /\ ParsedLimitOfCall.t = "num"
  /\ ParsedLimitOfCall.v[1] > 500
  /\ call.result.limit = 100

(***************************************************************************)
(* deployToVercel on every environment and every CLI outcome whose two     *)
(* streams hold at most MaxOutput words of OutputWords together.           *)
(***************************************************************************)
HostingUrlWords ==
  {"https://site-a.vercel.app", "https://site-d.vercel.app.",
   "https://site-b.vercel.app/inspect", "https://site-c.vercel.com/"}

ErrorUrlWords == {"https://err.sh/vercel/no-token"}

OutputWords ==
  HostingUrlWords \cup ErrorUrlWords \cup {"Deploying", "Error:", "Token", "authentication"}

Streams ==
  {p \in SeqsUpTo(OutputWords, MaxOutput) \X SeqsUpTo(OutputWords, MaxOutput) :
     Len(p[1]) + Len(p[2]) <= MaxOutput}

DeployArgs ==
  {[env |-> [token |-> token, writeFails |-> writeFails], hasDescriptor |-> has,
    exec |-> Exec(exit, p[1], p[2])] :
     token \in BOOLEAN, writeFails \in BOOLEAN, has \in BOOLEAN, exit \in {0, 1},
     p \in Streams}

CallDeployToVercel ==
  /\ call.fn = "deployToVercel"
  /\ Return(deployToVercel(call.args.env, call.args.hasDescriptor, call.args.exec))

SpecDeploy == CallInit("deployToVercel", DeployArgs) /\ [][CallDeployToVercel]_vars

\* scheme and host of a hosting-domain URL
Origin(w) ==
  CASE w = "https://site-d.vercel.app." -> "https://site-d.vercel.app"
    [] w = "https://site-b.vercel.app/inspect" -> "https://site-b.vercel.app"
    [] w = "https://site-c.vercel.com/" -> "https://site-c.vercel.com"
    [] OTHER -> w

OutputOfCall == call.args.exec.stdout \o call.args.exec.stderr

\* the CLI command of the call ran and exited non-zero
CliFailed ==
  /\ Returned_("deployToVercel")
  /\ call.result.runsCli
  /\ call.args.exec.exit # 0

\* C7: the deployer decides from the captured output, not from the exit code.
\* After a non-zero exit, an output that holds a hosting-domain URL and no
\* error-domain URL gives success with the URL of a hosting-domain word of the
\* output; any non-empty output gives the result the same output gives after
\* exit 0; only two empty streams make the non-zero exit a failure of its own.
C7_OutputDecides ==
  CliFailed =>
    /\ (/\ Range(OutputOfCall) \cap HostingUrlWords # {}
        /\ Range(OutputOfCall) \cap ErrorUrlWords = {}
        => /\ call.result.result.success
           /\ call.result.result.deployedUrl \in
                {Origin(w) : w \in Range(OutputOfCall) \cap HostingUrlWords})
    /\ (OutputOfCall # <<>>
        => call.result = deployToVercel(call.args.env, call.args.hasDescriptor,
                                        [call.args.exec EXCEPT !.exit = 0]))
    /\ (OutputOfCall = <<>> => ~call.result.result.success)

\* the CLI exited non-zero with a hosting-domain URL on stderr, and the
\* deployer reported success
C7_Witness ==
  /\ CliFailed
  /\ call.args.exec.stdout = <<"Error:">>
  /\ call.args.exec.stderr = <<"https://site-b.vercel.app/inspect">>
  /\ call.result.result.success
  /\ call.result.result.deployedUrl = "https://site-b.vercel.app"

(***************************************************************************)
(* validateAndFixWebsite on every review of at most MaxIssues issues of    *)
(* IssuePool.                                                              *)
(***************************************************************************)
GeneratedLists ==
  {<<[fileName |-> "index.html"], [fileName |-> "app.js"]>>,
   <<[fileName |-> "about.html"], [fileName |-> "index.html"], [fileName |-> "app.js"]>>}

IssuePool ==
  {ValidationIssue("index.html", "error"), ValidationIssue("index.html", "info"),
   ValidationIssue("app.js", "warning"), ValidationIssue("about.html", "error"),
   ValidationIssue("contact.html", "error"), NullIssue}

Reviews ==
  {[kind |-> k, issues |-> <<>>] : k \in {"error", "invalid", "notarray"}}
    \cup {IssuesReview(issues) : issues \in SeqsUpTo(IssuePool, MaxIssues)}

ValidateArgs ==
  [generatedFiles : GeneratedLists, review : Reviews, failAt : 0..MaxIssues,
   readFails : BOOLEAN]

CallValidateAndFixWebsite ==
  /\ call.fn = "validateAndFixWebsite"
  /\ Return(validateAndFixWebsite(call.args.generatedFiles, call.args.review,
                                  call.args.failAt, call.args.readFails))

SpecValidate ==
  CallInit("validateAndFixWebsite", ValidateArgs) /\ [][CallValidateAndFixWebsite]_vars

\* the issues the review call of the call returned (none when it returned no list)
ReviewedIssues ==
  IF ~call.args.readFails /\ call.args.review.kind = "issues"
  THEN Range(call.args.review.issues) ELSE {}

ReviewReturnedNoError ==
  /\ ~call.args.readFails
  /\ call.args.review.kind = "issues"
  /\ \A issue \in ReviewedIssues : issue.severity \in {"warning", "info"}

\* C8: validateAndFixWebsite writes a file only if the review returned an
\* issue of severity "error" naming it and the file is in the generated-file
\* list; a review with no issue, or with warnings only, writes nothing,
\* leaves fixedFiles empty and returns normally to the orchestrator.
C8_OnlyErrorsOfGeneratedFilesRewritten ==
  Returned_("validateAndFixWebsite") =>
    /\ \A name \in Range(call.result.written) :
         /\ ValidationIssue(name, "error") \in ReviewedIssues
         /\ name \in Range(Names(call.args.generatedFiles))
    /\ (ReviewReturnedNoError
        => /\ call.result.written = <<>>
           /\ call.result.result.fixedFiles = <<>>
           /\ ~call.result.threw)

\* one file was rewritten for its error while a warning about another file
\* was returned by the same review
C8_Witness ==
  /\ Returned_("validateAndFixWebsite")
  /\ call.args.review.issues =
       <<ValidationIssue("app.js", "warning"), ValidationIssue("index.html", "error")>>
  /\ call.result.written = <<"index.html">>
  /\ call.result.result.fixedFiles = <<"index.html">>

(***************************************************************************)
(* Properties of the pipeline.                                             *)
(***************************************************************************)
Terminal(status) == status.status \in {"completed", "failed"}

\* the handler has answered request r with its projectId and in_progress
Responded(r) == pc[r] \notin {"idle", "rejected", "importing"}

\* the background task of request r has ended
Stopped(r) == pc[r] \in {"done", "aborted"}

\* C1: once the status stored for a job id is completed or failed, no step of
\* any request changes the status stored for that id.  Two requests accepted
\* in the same millisecond share an id, and the second one's generateWebsite
\* stores in_progress over the first one's final status.
C1_TerminalStatusIsFinal ==
  [][\A id \in Ids : Terminal(statusStore[id]) => statusStore'[id] = statusStore[id]]_vars

\* C2: from the moment the response is sent, getGenerationStatus(projectId)
\* returns a status record.  The code registers the job only when
\* generateWebsite is called, after four awaited steps.
C2_RegisteredWhenResponded ==
  \A r \in Req : Responded(r) => getGenerationStatus(projectId[r]) # NoStatus

\* C3: a background task that has stopped leaves its job failed or completed;
\* one that stopped on an exception leaves it failed.  An exception of
\* filterData is caught by the background task, which only logs it.
C3_StoppedPipelineLeavesFinalStatus ==
  \A r \in Req :
    /\ (Stopped(r) => Terminal(getGenerationStatus(projectId[r])))
    /\ (pc[r] = "aborted" => getGenerationStatus(projectId[r]).status = "failed")

\* the deployer was called for request r and reported a failure
DeploymentFailed(r) == deployment[r].called /\ ~deployment[r].result.success

\* the deployer was called for request r and reported success with a URL
DeploymentSucceeded(r) ==
  /\ deployment[r].called
  /\ deployment[r].result.success
  /\ deployment[r].result.deployedUrl # Undefined

\* C9: a deployment that was attempted and failed never fails the job: the
\* status generateWebsite stores and returns is completed without deployedUrl;
\* a completed status carries deployedUrl exactly when the deployer returned
\* success with a URL, and then that URL.
C9_FailedDeploymentKeepsJobCompleted ==
  \A r \in Req :
    /\ (pc[r] = "done" /\ DeploymentFailed(r)
        => ret[r].status = "completed" /\ ret[r].deployedUrl = Undefined)
    /\ (ret[r].status = "completed"
        => /\ ret[r].deployedUrl # Undefined <=> DeploymentSucceeded(r)
           /\ DeploymentSucceeded(r) => ret[r].deployedUrl = deployment[r].result.deployedUrl)

\* the CLI ran for a job, the deployer reported a failure, and the job completed
C9_Witness ==
  \E r \in Req :
    /\ pc[r] = "done"
    /\ DeploymentFailed(r)
    /\ deployment[r].result.error = "Could not parse deployment URL"
    /\ ret[r].status = "completed"

\* C10: without a deployment token no CLI command is executed, the deployer
\* writes no descriptor and is not called; a job whose validation returned
\* ends completed, without deployedUrl, in the same step.
C10_NoTokenNoDeployment ==
  /\ [](~vercelToken =>
          /\ cliRuns = 0
          /\ \A id \in Ids : disk[id]["vercel.json"] = 0
          /\ \A r \in Req :
               /\ ~deployment[r].called
               /\ pc[r] # "deploying"
               /\ ret[r].status = "completed" => ret[r].deployedUrl = Undefined)
  /\ [][\A r \in Req :
          ~vercelToken /\ pc[r] = "validating" /\ pc'[r] # "validating"
            => /\ pc'[r] = "done"
               /\ ret'[r].status = "completed" \/ ret'[r].message = ValidatorThrew]_vars

\* a job completed without a token: nothing was deployed
C10_Witness ==
  \E r \in Req :
    /\ ~vercelToken
    /\ pc[r] = "done"
    /\ ret[r] = GenerationStatus("completed", "Website generated successfully", Undefined)
    /\ disk[projectId[r]]["index.html"] = r

\* the names of the plan the call returned
PlanNamesOfCall == Range(Names(call.result))

IntentLowerOfCall == ToLowerCase(call.args.intent)

\* C11: for an intent with a complex-request signature, the plan
\* planArchitecture returns holds every page the intent's keywords imply,
\* whatever the model answered.  The pages are added to the parsed reply
\* only: a reply that is no JSON (or a failed call) ends in the catch block,
\* which returns index.html and app.js alone.
C11_ComplexRequestGetsImpliedPages ==
  Returned_("planArchitecture") /\ isComplexRequest(IntentLowerOfCall) =>
    Range(requestedPages(IntentLowerOfCall)) \subseteq PlanNamesOfCall

\* C12: for an intent without page-type or business vocabulary, the plan
\* planArchitecture returns consists of index.html and app.js and no other
\* file.  For such an intent the code adds no page, but keeps every .html and
\* .js entry the model listed.
C12_SimpleRequestGetsMinimalPlan ==
  Returned_("planArchitecture") /\ isSimpleRequest(IntentLowerOfCall) =>
    /\ PlanNamesOfCall = {"index.html", "app.js"}
    /\ Len(call.result) = 2

(***************************************************************************)
(* detectDataSource on every intent of at most MaxIntentWords words of     *)
(* DetectWords.                                                            *)
(***************************************************************************)
DetectWords ==
  {"movies", "review", "actor", "director", "Company", "website", "our", "Products", "for",
   "corporate", "software", "mission"}

DetectArgs == [intent : SeqsUpTo(DetectWords, MaxIntentWords)]

CallDetectDataSource ==
  /\ call.fn = "detectDataSource"
  /\ Return(detectDataSource(call.args.intent))

SpecDetect == CallInit("detectDataSource", DetectArgs) /\ [][CallDetectDataSource]_vars

\* the rules of the precedence list, as conditions on the lower-cased intent
MoviesRule(t) ==
  \/ Includes(t, "movie") \/ Includes(t, "film") \/ Includes(t, "cinema")
  \/ (Includes(t, "action") /\ Includes(t, "genre"))

TestimonialsRule(t) ==
  \/ Includes(t, "testimonial") \/ Includes(t, "review")
  \/ IncludesPhrase(t, <<"customer", "feedback">>)

ActorsRule(t) == Includes(t, "actor") \/ Includes(t, "actress")

DirectorsRule(t) ==
  Includes(t, "director") \/ Includes(t, "filmmaker") \/ IncludesPhrase(t, <<"directed", "by">>)

CompanyPhraseRule(t) ==
  \E p \in {<<"company", "website">>, <<"business", "website">>, <<"our", "company">>,
            <<"our", "business">>, <<"company's", "mission">>, <<"company's", "vision">>,
            <<"our", "mission">>, <<"our", "vision">>, <<"our", "services">>,
            <<"company's", "services">>} : IncludesPhrase(t, p)

CompanyContextRule(t) ==
  /\ \E k \in {"company", "business", "corporate"} : Includes(t, k)
  /\ \E k \in {"mission", "vision", "about", "our"} : Includes(t, k)

ProductRule(t) == IncludesPhrase(t, <<"", "product">>) \/ Includes(t, "products")

\* product versus company: products on their own, or asked for by phrase
ProductRuleSource(t) ==
  IF (Includes(t, "company") \/ Includes(t, "business"))
       /\ ~IncludesPhrase(t, <<"products", "for">>)
       /\ ~IncludesPhrase(t, <<"show", "me", "products">>)
  THEN "companies" ELSE "products"

CompanyKeywordRule(t) ==
  \/ \E k \in {"company", "business", "corporate", "mission", "vision"} : Includes(t, k)
  \/ IncludesPhrase(t, <<"about", "us">>)

ProductKeywordRule(t) ==
  \/ \E k \in {"trial", "software", "app", "service", "tool"} : Includes(t, k)
  \/ IncludesPhrase(t, <<"sign", "up">>)

Rule(matches, source) == [matches |-> matches, source |-> source]

\* the source of the first rule that matches, "movies" when none does
FirstMatchingRule(rules) ==
  LET hits == {i \in 1..Len(rules) : rules[i].matches}
  IN IF hits = {} THEN "movies"
     ELSE rules[CHOOSE i \in hits : \A j \in hits : i <= j].source

LeadingRules(t) ==
  <<Rule(MoviesRule(t), "movies"), Rule(TestimonialsRule(t), "testimonials"),
    Rule(ActorsRule(t), "actors"), Rule(DirectorsRule(t), "directors"),
    Rule(CompanyPhraseRule(t), "companies"), Rule(CompanyContextRule(t), "companies"),
    Rule(ProductRule(t), ProductRuleSource(t))>>

\* the list as documented: eight rules and the default
DocumentedRules(t) == LeadingRules(t) \o <<Rule(ProductKeywordRule(t), "products")>>

\* the list of the code: a company keyword on its own decides for companies
\* before the generic product and service keywords are looked at
CodeRules(t) ==
  LeadingRules(t) \o <<Rule(CompanyKeywordRule(t), "companies"),
                       Rule(ProductKeywordRule(t), "products")>>

\* C13 as stated: detectDataSource returns the collection of the first rule
\* that matches in the documented list (movies, testimonials, actors,
\* directors, explicit company phrases, company plus context word, product
\* versus company, generic product and service keywords, default movies), no
\* other rule has a say, and the result is one of the six collections.
C13_DocumentedPrecedence ==
  Returned_("detectDataSource") =>
    /\ call.result = FirstMatchingRule(DocumentedRules(ToLowerCase(call.args.intent)))
    /\ call.result \in Sources

\* C13 amended: the same with the rule the documented list leaves out: after
\* product versus company and before the generic product and service
\* keywords, a company keyword on its own (company, business, corporate,
\* mission, vision, "about us") gives companies.
C13_PrecedenceWithCompanyKeywords ==
  Returned_("detectDataSource") =>
    /\ call.result = FirstMatchingRule(CodeRules(ToLowerCase(call.args.intent)))
    /\ call.result \in Sources

\* "corporate software": the company keyword decides before the product keyword
C13_Witness ==
  /\ Returned_("detectDataSource")
  /\ call.args.intent = <<"corporate", "software">>
  /\ call.result = "companies"

\* the 4-digit tokens of the requests, with the year each one writes
FourDigitTokens == {"1850", "1999", "2020", "2025"}

TokenYear(w) ==
  CASE w = "1850" -> 1850
    [] w = "1999" -> 1999
    [] w = "2020" -> 2020
    [] w = "2025" -> 2025

\* the years written in the request of the call, in order
YearsOfCall ==
  LET tokens == SelectSeq(call.args.userIntent, LAMBDA w : w \in FourDigitTokens)
  IN [i \in 1..Len(tokens) |-> TokenYear(tokens[i])]

TookHeuristicPath == Returned_("analyzeIntent") /\ call.result.path = "fallback"

\* C14 as stated: on the heuristic path, a request that contains a 4-digit
\* year token gets filters.year equal to that year, as an integer.
C14_EveryYearTokenRecovered ==
  TookHeuristicPath /\ YearsOfCall # <<>> =>
    /\ "year" \in DOMAIN call.result.filters
    /\ \E i \in 1..Len(YearsOfCall) : call.result.filters["year"] = Num(YearsOfCall[i])

\* C14 amended: on the heuristic path, a request that contains a year token
\* from 1900 to 2099 gets filters.year equal to the first such year, as an
\* integer (the pattern of the extractor is \b(19|20)\d{2}\b; a token such
\* as 1850 is not extracted).
C14_FirstYearOfTwoCenturiesRecovered ==
  LET years == SelectSeq(YearsOfCall, LAMBDA y : 1900 <= y /\ y <= 2099)
  IN TookHeuristicPath /\ years # <<>> =>
       /\ "year" \in DOMAIN call.result.filters
       /\ call.result.filters["year"] = Num(years[1])

\* the model call failed on "2020 or 1999 movies" and the filters carry 2020
C14_Witness ==
  /\ TookHeuristicPath
  /\ call.args.userIntent = <<"2020", "or", "1999", "movies">>
  /\ call.result.filters["year"] = Num(2020)

\* ---------------------------------------------------------------------------
\* Pipeline: what generateWebsite hands to generateFile

\* the request r is inside the file loop and gen[r] is its current call
Generating(r) == pc[r] = "generating" /\ gen[r] # NoFileCall

\* C15: the pages the navigation of a generated HTML file may link to are
\* pages of the job's final plan, and never the file itself.
C15_NavigationWithinPlan ==
  \A r \in Req :
    Generating(r) /\ gen[r].fileName \in HtmlNames =>
      /\ Range(gen[r].otherPages) \subseteq Range(plan[r])
      /\ gen[r].fileName \notin Range(gen[r].otherPages)

\* C16: every generateFile call of a job receives the branding of the job's
\* request unchanged, and the default name is used only when the request
\* carried no name.
C16_BrandingReachesEveryFile ==
  \A r \in Req :
    Generating(r) =>
      /\ gen[r].websiteDetails = websiteDetails[r]
      /\ gen[r].websiteName = "SkyThought" => websiteDetails[r].websiteName = Undefined

\* ---------------------------------------------------------------------------
\* The log store: addLog on a store that starts empty

\* if (logs.length > 1000)
LogCap == 1000

\* lines appended to the log of the first job, and of the second job
MaxAppends == 1002

MaxOtherAppends == 2

LogIds == {1, 2}

LogEntry(timestamp, message, level) ==
  [timestamp |-> timestamp, message |-> message, level |-> level]

\* getProjectLogs: logStore.get(projectId) || []
getProjectLogs(store, id) == IF id \in DOMAIN store THEN store[id] ELSE <<>>

\* a log that never evicts
PushOnly(logs, entry) == Append(logs, entry)

\* logs.push(entry); if (logs.length > 1000) logs.shift()
PushAndEvict(logs, entry) ==
  LET pushed == Append(logs, entry)
  IN IF Len(pushed) > LogCap THEN Tail(pushed) ELSE pushed

addLog(store, id, timestamp, message, level) ==
  [k \in DOMAIN store \cup {id} |->
     IF k = id
     THEN PushAndEvict(getProjectLogs(store, id), LogEntry(timestamp, message, level))
     ELSE store[k]]

\* new Map()
EmptyLogStore == [k \in {} |-> <<>>]

\* console.log, console.error and console.warn in turn
Levels == <<"info", "error", "warning">>

LevelOfLine(n) == Levels[(n % 3) + 1]

LogInit ==
  /\ PipeInit
  /\ vercelToken = FALSE
  /\ call = [fn |-> "addLog", args |-> [appended |-> [id \in LogIds |-> 0]],
             done |-> FALSE, result |-> EmptyLogStore]

\* the next intercepted line of job id is appended to its log; the message
\* of a line is its number among the lines of the job
CallAddLog ==
  /\ call.fn = "addLog"
  /\ \E id \in LogIds :
       LET n == call.args.appended[id] + 1
       IN /\ n <= IF id = 1 THEN MaxAppends ELSE MaxOtherAppends
          /\ call' = [call EXCEPT
                        !.args.appended[id] = n,
                        !.result = addLog(call.result, id, now, n, LevelOfLine(n))]
  /\ UNCHANGED pipeVars

SpecLog == LogInit /\ [][CallAddLog]_vars

LogOfCall(id) == getProjectLogs(call.result, id)

\* C17: each job's log holds at most LogCap entries, and a step changes a log
\* only by appending one entry at its end, evicting the oldest entry first
\* when the log is full: order is kept, entries are never modified, and
\* nothing but the oldest entry of a full log is removed.
C17_LogBoundedAppendOnly ==
  /\ [](call.fn = "addLog" => \A id \in LogIds : Len(LogOfCall(id)) <= LogCap)
  /\ [][call.fn = "addLog" =>
          \A id \in LogIds :
            LET before == LogOfCall(id)
                after == getProjectLogs(call'.result, id)
            IN \/ after = before
               \/ /\ Len(after) = Len(before) + 1
                  /\ SubSeq(after, 1, Len(before)) = before
               \/ /\ Len(before) = LogCap
                  /\ Len(after) = LogCap
                  /\ SubSeq(after, 1, LogCap - 1) = Tail(before)]_vars

\* the log of job 1 is full and its oldest entries were evicted, while the
\* log of job 2 still holds its two entries
C17_Witness ==
  /\ call.fn = "addLog"
  /\ Len(LogOfCall(1)) = LogCap
  /\ LogOfCall(1)[1].message > 1
  /\ Len(LogOfCall(2)) = MaxOtherAppends
  /\ call.args.appended[1] > LogCap

\* ---------------------------------------------------------------------------
\* Pipeline: log capture and job identity of overlapping requests

\* C18: an intercepted console line of a running job is appended to the log
\* of exactly one job, the one whose startLogCapture call was the latest.
C18_LineGoesToLatestCapture ==
  lastLine.emitted => lastLine.to = lastCapture

\* the request r passed the check of its body and has a job id
Accepted(r) == projectId[r] # NoId

\* C19: two accepted requests never share a job id (the key of the status
\* record and the name of the output directory), so no file of a directory
\* was written by a request other than the one the directory belongs to.
C19_EveryRequestOwnsItsJob ==
  \A r1, r2 \in Req :
    r1 # r2 /\ Accepted(r1) /\ Accepted(r2) =>
      /\ projectId[r1] # projectId[r2]
      /\ \A n \in DiskNames : disk[projectId[r1]][n] # r2

(***************************************************************************)
(* The non-essential model steps: rephraseIntent, verifyDataSource and     *)
(* extractWebsiteDetails, each on one reply of the model.                  *)
(***************************************************************************)
\* the promise of an async function: resolved with a value, or rejected
Resolved(value) == [threw |-> FALSE, value |-> value]

Rejected == [threw |-> TRUE, value |-> Undefined]

\* the reply of client.messages.create: the call throws ("error"), or it
\* returns a text block, or a block that is not text ("other")
ErrorReply == [kind |-> "error", text |-> <<>>]

TextReply(text) == [kind |-> "text", text |-> text]

OtherReply == [kind |-> "other", text |-> <<>>]

\* msg.content[0]?.type === "text" ? msg.content[0].text : ""
ReplyText(reply) == IF reply.kind = "text" THEN reply.text ELSE <<>>

\* the two .replace calls that delete the code-fence markers of a reply; a
\* marker is the word "fence" of a text
StripFences(text) == SelectSeq(text, LAMBDA w : w # "fence")

\* a rephraser whose catch block throws again
RephraseRethrows(userIntent) == Rejected

\* catch (err) { ...; return userIntent; }
RephraseCatch(userIntent) == Resolved(userIntent)

rephraseIntent(userIntent, reply) ==
  IF reply.kind = "error" THEN RephraseCatch(userIntent)
  ELSE Resolved(StripFences(ReplyText(reply)))

\* server.ts: const availableSources = [...]
AvailableSources ==
  <<"movies", "companies", "products", "actors", "directors", "testimonials">>

\* a verifier that returns the first word of the reply as the source
VerifierTrustsReply(detectedSource, availableSources, reply) ==
  IF ReplyText(reply) # <<>> THEN Resolved(Lower(ReplyText(reply)[1]))
  ELSE Resolved(detectedSource)

verifyDataSource(detectedSource, availableSources, reply) ==
  IF reply.kind = "error" THEN Resolved(detectedSource)
  ELSE LET lowerText == ToLowerCase(ReplyText(reply))
           named == SelectSeq(availableSources, LAMBDA source : Includes(lowerText, source))
       IN IF Includes(lowerText, "correct") \/ lowerText = <<Lower(detectedSource)>>
          THEN Resolved(detectedSource)
          ELSE IF named # <<>> THEN Resolved(named[1])
          ELSE Resolved(detectedSource)

\* the reply of the extractor parsed as JSON: JSON.parse throws ("invalid"),
\* or it yields an object whose fields are strings or null
JsonNull == "null"

ParsedDetails(websiteName, tagline, description) ==
  [kind |-> "json", fields |-> WebsiteDetails(websiteName, tagline, description)]

InvalidJson == [kind |-> "invalid", fields |-> NoDetails]

\* parsed.field || undefined
OrUndefined(v) == IF v \in {JsonNull, "", Undefined} THEN Undefined ELSE v

\* reply.kind = "error" is a failed model call, reply.parsed the outcome of
\* JSON.parse on the text of a reply
extractWebsiteDetails(reply) ==
  IF reply.kind = "error" \/ reply.parsed.kind = "invalid" THEN Resolved(NoDetails)
  ELSE Resolved(WebsiteDetails(OrUndefined(reply.parsed.fields.websiteName),
                               OrUndefined(reply.parsed.fields.tagline),
                               OrUndefined(reply.parsed.fields.description)))

FallbackIntents == {<<"show", "movies">>, <<"Company", "website", "about">>}

RephraseReplies ==
  {ErrorReply, OtherReply, TextReply(<<"A", "movie", "site">>),
   TextReply(<<"fence", "A", "movie", "site", "fence">>)}

RephraseArgs == [userIntent : FallbackIntents, response : RephraseReplies]

VerifyReplies ==
  {ErrorReply, OtherReply, TextReply(<<"CORRECT">>), TextReply(<<"incorrect">>),
   TextReply(<<"Products">>), TextReply(<<"use", "actors", "or", "movies">>),
   TextReply(<<"unsure">>), TextReply(<<"incorrect", "products">>),
   TextReply(<<"the", "correct", "source", "is", "actors">>)}

VerifyArgs ==
  [detectedSource : Sources, availableSources : {AvailableSources}, response : VerifyReplies]

ExtractReplies ==
  {[kind |-> "error", parsed |-> InvalidJson], [kind |-> "text", parsed |-> InvalidJson]}
    \cup {[kind |-> "text", parsed |-> ParsedDetails(n, t, d)] :
            n \in {JsonNull, "Acme"}, t \in {JsonNull, "", "We build"},
            d \in {JsonNull, "About Acme"}}

ExtractArgs == [userIntent : FallbackIntents, response : ExtractReplies]

FallbackInit ==
  /\ PipeInit
  /\ vercelToken = FALSE
  /\ \/ call \in {Pending("rephraseIntent", a) : a \in RephraseArgs}
     \/ call \in {Pending("verifyDataSource", a) : a \in VerifyArgs}
     \/ call \in {Pending("extractWebsiteDetails", a) : a \in ExtractArgs}
     \/ call \in {Pending("analyzeIntent", a) : a \in AnalyzeArgs}

CallRephraseIntent ==
  /\ call.fn = "rephraseIntent"
  /\ Return(rephraseIntent(call.args.userIntent, call.args.response))

CallVerifyDataSource ==
  /\ call.fn = "verifyDataSource"
  /\ Return(verifyDataSource(call.args.detectedSource, call.args.availableSources,
                             call.args.response))

CallExtractWebsiteDetails ==
  /\ call.fn = "extractWebsiteDetails"
  /\ Return(extractWebsiteDetails(call.args.response))

FallbackNext ==
  \/ CallRephraseIntent
  \/ CallVerifyDataSource
  \/ CallExtractWebsiteDetails
  \/ CallAnalyzeIntent

SpecFallback == FallbackInit /\ [][FallbackNext]_vars

\* the call has returned and its model call had failed
ModelCallFailed == call.done /\ call.args.response.kind = "error"

\* C20: when the model call fails, none of the four steps throws:
\* rephraseIntent returns the original intent, analyzeIntent the heuristic
\* analysis with limit 100 and the keyword-detected source, verifyDataSource
\* the source it was given, extractWebsiteDetails a record with no field set.
C20_ModelFailureFallsBack ==
  ModelCallFailed =>
    CASE call.fn = "rephraseIntent" ->
           ~call.result.threw /\ call.result.value = call.args.userIntent
      [] call.fn = "analyzeIntent" ->
           /\ call.result = HeuristicAnalysis(call.args.userIntent)
           /\ call.result.limit = 100
           /\ call.result.dataSource = detectDataSource(call.args.userIntent)
      [] call.fn = "verifyDataSource" ->
           ~call.result.threw /\ call.result.value = call.args.detectedSource
      [] call.fn = "extractWebsiteDetails" ->
           ~call.result.threw /\ call.result.value = NoDetails
      [] OTHER -> FALSE

\* the model call of rephraseIntent failed on "Company website about" and the
\* caller got the intent back
C20_Witness ==
  /\ ModelCallFailed
  /\ call.fn = "rephraseIntent"
  /\ call.result = Resolved(<<"Company", "website", "about">>)

\* ---------------------------------------------------------------------------
\* Pipeline: the order of the steps of one job

\* the steps of a job in pipeline order: the model call of the rephraser, of
\* the analyzer, of the verifier (then filterData), the data file, the
\* planner, the file loop, the validator, the deployer
StepOrder ==
  <<"rephrasing", "analyzing", "verifying", "loading", "planning", "generating",
    "validating", "deploying">>

StepOf(p) == CHOOSE i \in 1..Len(StepOrder) : StepOrder[i] = p

\* the job left the pipeline: generateWebsite returned, or the background
\* task was stopped by an exception
Left(p) == p \in {"done", "aborted"}

\* the first k planned files of request r are on disk
FilesWritten(r, k) == \A i \in 1..k : disk[projectId[r]][plan[r][i]] # 0

VerifiedAnalysis(intent, response, reply) ==
  LET analysis == analyzeIntent(intent, response)
      verifiedSource == verifyDataSource(analysis.dataSource, AvailableSources, reply).value
  IN [analysis EXCEPT !.dataSource = verifiedSource]

SourceArgs ==
  [intent : FallbackIntents, response : AnalyzeResponses, reply : VerifyReplies]

CallVerifiedAnalysis ==
  /\ call.fn = "verifiedAnalysis"
  /\ Return(VerifiedAnalysis(call.args.intent, call.args.response, call.args.reply))

SpecSource == CallInit("verifiedAnalysis", SourceArgs) /\ [][CallVerifiedAnalysis]_vars

\* C22: whatever the analyzer's model call and the verifier's model call
\* produced, the data source handed to filterData and the planner is one of
\* the six known collections.
C22_SourceIsKnownCollection ==
  Returned_("verifiedAnalysis") => call.result.dataSource \in Sources

\* the analyzer's model named the unknown source "films", the verifier's
\* reply named no collection, and the job runs on the keyword-detected source
C22_Witness ==
  /\ Returned_("verifiedAnalysis")
  /\ call.args.response.kind = "json"
  /\ call.args.response.parsed.dataSource = "films"
  /\ call.args.reply = TextReply(<<"unsure">>)
  /\ call.result.dataSource = detectDataSource(call.args.intent)

\* ---------------------------------------------------------------------------
\* analyzeIntent: the correction of the limit for "all" language

\* the model answered with JSON whose limit is a number in (0, 500], and the
\* request contains "all" language
AllLanguageWithValidLimit ==
  /\ Returned_("analyzeIntent")
  /\ call.args.response.kind = "json"
  /\ InLimitInterval(ParsedLimitOfCall)
  /\ WantsAll(ToLowerCase(call.args.userIntent))

\* C23 as stated: with "all" language and a valid parsed limit below 100 the
\* returned limit is at least 100.
C23_AllLanguageLiftsLimitsBelow100 ==
  AllLanguageWithValidLimit /\ ParsedLimitOfCall.v[1] < 100 => call.result.limit >= 100

\* C23 amended: with "all" language and a valid parsed limit below 50 the
\* returned limit is 100; a valid parsed limit of 50 or more is returned
\* as it is.
C23_AllLanguageLiftsLimitsBelow50 ==
  AllLanguageWithValidLimit =>
    call.result.limit = IF ParsedLimitOfCall.v[1] < 50 THEN 100 ELSE ParsedLimitOfCall.v[1]

\* "show all movies" with a parsed limit of 49 is answered with limit 100
C23_Witness ==
  /\ AllLanguageWithValidLimit
  /\ call.args.userIntent = <<"show", "all", "movies">>
  /\ ParsedLimitOfCall = Num(49)
  /\ call.result.limit = 100

\* ---------------------------------------------------------------------------
\* verifyDataSource: what the reply of the model decides

\* the available sources whose name the reply contains, case-insensitively
NamedInReply ==
  {source \in Range(call.args.availableSources) :
     Includes(ToLowerCase(ReplyText(call.args.response)), source)}

\* the reply is the agreement token and nothing else
IsAgreementToken(reply) == ToLowerCase(ReplyText(reply)) = <<"correct">>

\* C24: the result is the given source or an available source; a reply that
\* is not the agreement token and names a known collection yields a collection
\* named in the reply; the given source is kept only when the reply is the
\* agreement token, names no collection (or names the given one), or the call
\* failed.
C24_VerifierFollowsReply ==
  Returned_("verifyDataSource") =>
    LET reply == call.args.response
        given == call.args.detectedSource
        result == call.result.value
    IN /\ ~call.result.threw
       /\ result \in {given} \cup Range(call.args.availableSources)
       /\ reply.kind = "text" /\ ~IsAgreementToken(reply) /\ NamedInReply # {}
            => result \in NamedInReply
       /\ result = given =>
            \/ reply.kind = "error"
            \/ IsAgreementToken(reply)
            \/ NamedInReply \subseteq {given}

\* ---------------------------------------------------------------------------
\* validateAndFixWebsite: the writes of one call

WrittenOfCall == call.result.written

\* the number of times the call overwrote the file name
TimesWritten(name) == Cardinality({i \in 1..Len(WrittenOfCall) : WrittenOfCall[i] = name})

\* C25: the validator overwrites each file at most once in a call, whatever
\* list of issues the review returned (several error issues may name the
\* same file).
C25_EachFileOverwrittenAtMostOnce ==
  Returned_("validateAndFixWebsite") =>
    \A name \in Range(WrittenOfCall) : TimesWritten(name) <= 1

\* C27: validateAndFixWebsite never throws to the orchestrator; when reading
\* the files, the review call or the parsing of its reply raised an
\* exception, it returns {hasIssues: false, issues: [], fixedFiles: []}.
C27_ValidatorNeverThrows ==
  Returned_("validateAndFixWebsite") =>
    /\ ~call.result.threw
    /\ call.args.readFails \/ call.args.review.kind # "issues"
         => call.result.result = NoIssuesFound

\* C28: the fixedFiles of the returned result name exactly the files the call
\* overwrote on disk, also when the call ended through its catch block.
C28_FixedFilesAreTheWrittenFiles ==
  Returned_("validateAndFixWebsite") =>
    Range(call.result.result.fixedFiles) = Range(WrittenOfCall)

\* ---------------------------------------------------------------------------
\* filterData: what the returned records satisfy

\* the call returned the records the filters left (no exception, no
\* zero-result fallback)
FilteredReturn ==
  /\ Returned_("filterData")
  /\ ~call.result.threw
  /\ ~NaiveOfCall.threw
  /\ ~TookFallback(LoadedOfCall.items, NaiveOfCall.items)

\* the filter keys that carry a value
DeclaredKeys(f) == {k \in DOMAIN f \ {"limit"} : f[k].t \notin {"undef", "null"}}

\* case-insensitive substring match for a string value, equality otherwise
SatisfiesFilter(item, key, value) ==
  IF IsStr(value) THEN StrIncludes(LowerStr(ToStr(Or(Get(item, key), Str(<<>>)))),
                                   LowerStr(value.v))
  ELSE StrictEq(Get(item, key), value)

\* the filter of a collection on a key the destructuring takes
CollectionFilterHolds(dataSource, item, f) ==
  LET genre == Get(f, "genre")
      year == Get(f, "year")
      location == Get(f, "location")
      category == Get(f, "category")
      nonEmpty(x) == IsStr(x) /\ x.v # <<>>
  IN CASE dataSource = "movies" ->
            /\ nonEmpty(genre) =>
                 \/ SatisfiesFilter(item, "Genre", genre)
                 \/ ~Truthy(Get(item, "Genre")) /\ SatisfiesFilter(item, "genre", genre)
            /\ IsNum(year) /\ year # Num(0) => YearMatches(item, year)
       [] dataSource = "companies" ->
            nonEmpty(location) /\ Trim(location.v) # <<>> =>
              SatisfiesFilter(item, "location", Str(Trim(location.v)))
       [] dataSource = "products" ->
            nonEmpty(category) => SatisfiesFilter(item, "category", category)
       [] dataSource \in {"actors", "directors"} ->
            nonEmpty(location) => SatisfiesFilter(item, "location", location)
       [] OTHER -> TRUE

\* C26 as stated: without the zero-result fallback, every returned record
\* satisfies every declared filter key other than limit, for every
\* collection.
C26_EveryDeclaredKeyHolds ==
  FilteredReturn =>
    \A i \in 1..Len(call.result.items) :
      \A k \in DeclaredKeys(call.args.filters) :
        SatisfiesFilter(call.result.items[i], k, call.args.filters[k])

\* C26 amended: without the zero-result fallback, every returned record
\* satisfies every declared key other than year, genre, location, category
\* and limit, and the filters of its own collection on those four keys
\* (movies: genre against Genre or genre, year against the first four
\* characters of Year or year; companies, actors, directors: location;
\* products: category).
C26_AppliedFiltersHold ==
  FilteredReturn =>
    \A i \in 1..Len(call.result.items) :
      /\ \A k \in DeclaredKeys(call.args.filters) \cap OtherKeys(call.args.filters) :
           SatisfiesFilter(call.result.items[i], k, call.args.filters[k])
      /\ CollectionFilterHolds(call.args.dataSource, call.result.items[i], call.args.filters)

\* the filter Year = 2025 removed one of two records and kept the other
C26_Witness ==
  /\ FilteredReturn
  /\ "Year" \in DOMAIN call.args.filters
  /\ Len(LoadedOfCall.items) = 2
  /\ Len(call.result.items) = 1

\* a is b with some elements left out: the elements of a are elements of b,
\* in the same relative order
RECURSIVE IsSubsequence(_, _)
IsSubsequence(a, b) ==
  IF a = <<>> THEN TRUE
  ELSE IF b = <<>> THEN FALSE
  ELSE IF Head(a) = Head(b) THEN IsSubsequence(Tail(a), Tail(b))
  ELSE IsSubsequence(a, Tail(b))

C30_WellFormedResult ==
  Returned_("deployToVercel") =>
    LET result == call.result.result
    IN /\ result.success \in BOOLEAN
       /\ result.success =>
            /\ result.deployedUrl # Undefined
            /\ EndsWithHostingSuffix(result.deployedUrl)
       /\ ~result.success =>
            /\ result.error # Undefined
            /\ result.deployedUrl = Undefined
       /\ call.result.runsCli /\ Range(OutputOfCall) \cap ErrorUrlWords # {} =>
            ~result.success

\* the CLI printed a hosting-domain URL and then an error-domain URL, and
\* the deployer reported failure without a URL
C30_Witness ==
  /\ Returned_("deployToVercel")
  /\ call.result.runsCli
  /\ OutputOfCall = <<"https://site-a.vercel.app", "https://err.sh/vercel/no-token">>
  /\ ~call.result.result.success
  /\ call.result.result.deployedUrl = Undefined

====
